---- MODULE Spec2Model ----
(***************************************************************************)
(* State-machine model of the bsv-agent repository:                        *)
(*   - the agent (poller, job processor, settlement builder, job store),   *)
(*     src/unnamed/part_001 lines 1-371;                                   *)
(*   - the single-transaction chat front-end, src/web.cjs.                 *)
(* Every await of the JavaScript code is a suspension point: the code      *)
(* between two awaits is one atomic action.                                *)
(***************************************************************************)
EXTENDS Integers, Sequences, FiniteSets, Bags, TLC

(* ----------------------------- bounds ---------------------------------- *)
\* number of transaction ids the ledger may list for the agent's address
NumTx == 1
\* number of pollForJobs executions that may be in progress at once
MaxTicks == 2
\* longest address-history response (entries may repeat)
MaxHist == 2
\* most utxos handed to the settlement builder
MaxInputs == 2
\* number of /api/chat requests handled at once
NumReqs == 2
\* most outputs the chat wallet holds at the start
MaxUtxos == 2
\* most unspent outputs in the listing of a job sender
MaxListing == 3
\* most poll ticks the timer starts one after the other
MaxPolls == 3
\* most entries of the address history the bridge scans
MaxScan == 3
\* most outputs of a transaction handed to the decoders
MaxVouts == 3
\* longest prompt, in UTF-16 code units, among the short prompts encoded
MaxPromptLen == 3
\* jobs on the ledger in the bridge specification
NumJobs == 2
\* most polling rounds of one waitForResponse call
MaxRounds == 2
\* longest conversation handed to buildContextPrompt (one more than the
\* larger of the two context limits)
MaxHistory == 11

(* ------------------------- program constants --------------------------- *)
FEE == 300
MaxResultBytes == 50000
\* web.cjs
CONTEXT_LIMIT == 10
MIN_FEE == 300
FEE_RATE == 1
EnoughSats == 5000
DustLimit == 546
\* hex digits of a SHA-256 digest
DigestHexLen == 64
\* the bridge front-end
BridgeContextLimit == 5
SATS_PER_JOB == 3000
\* job submission (bridge sendJobTx and send-job): the margin added to the
\* payment when inputs are gathered, the fee, and send-job's default payment
SubmitMargin == 1000
SubmitFee == 500
SendJobSats == 5000

Null == 0
TxIds == 1..NumTx

(* ------------------------- the ledger's content ------------------------ *)
\* What GET /tx/<txid> can return for a listed id: whether a nulldata output
\* carries JOB <prompt>, and the amounts (satoshis) of the outputs paying the
\* agent's address.
TxKinds ==
  { [job |-> TRUE,  outs |-> <<5000>>],
    [job |-> TRUE,  outs |-> <<100, 100>>],
    [job |-> FALSE, outs |-> <<1000>>],
    [job |-> TRUE,  outs |-> <<>>] }

NoTx == [job |-> FALSE, outs |-> <<>>]

(* ------------------------------ state ---------------------------------- *)
VARIABLES
  chain,          \* ledger: ids listed in the agent address's history
  detail,         \* ledger: the transaction behind each listed id
  spentReq,       \* ledger: request ids whose outputs a settlement has spent
  jobs,           \* jobs.json: the Job Store, a sequence of records
  phase,          \* agent process: "starting" (main before setInterval) or "up"
  lastSeenTxids,  \* the in-memory seen-set
  ticks,          \* the bag of pollForJobs executions in progress
  seeded,         \* ids the startup history read put in the seen-set (bookkeeping)
  skipped,        \* recorded ids the poll loop of this process passed over (bookkeeping)
  llmFailed       \* ids whose inference call failed in this process (bookkeeping)

agentVars == <<chain, detail, spentReq, jobs, phase, lastSeenTxids, ticks,
               seeded, skipped, llmFailed>>

\* The settlement builder on its own (specification SpecBuilder).
VARIABLES
  inputs,         \* the utxos handed to buildResponseTx
  resultIn,       \* the result text handed to buildResponseTx
  builderOut,     \* what buildResponseTx returned for them, or NotBuilt
  recordOut       \* the record saved once its broadcast is accepted, or NoRecord

builderVars == <<inputs, resultIn, builderOut, recordOut>>

\* The single-transaction chat front-end, web.cjs (specification SpecChat).
VARIABLES
  conv,           \* conversations/<ip>/history.json of the one requester
  reqs,           \* the /api/chat requests being handled
  utxoSet,        \* ledger: the unspent outputs of the wallet address
  sentInputs,     \* outputs referenced by a transaction handed to wocBroadcast (bookkeeping)
  reselected      \* outputs selected again after that (bookkeeping)

chatVars == <<conv, reqs, utxoSet, sentInputs, reselected>>

\* buildContextPrompt on its own (specification SpecContext).
VARIABLES
  ctxHistory,     \* the conversation handed to buildContextPrompt
  ctxPrompt,      \* the new prompt
  ctxFrontEnd,    \* whose buildContextPrompt: "web" (web.cjs) or "bridge"
  ctxOut          \* the context it returned, or <<>> before the call

contextVars == <<ctxHistory, ctxPrompt, ctxFrontEnd, ctxOut>>

\* The bridge front-end and what it reads (specification SpecBridge). The
\* Job Store it reads is the agent's variable jobs.
VARIABLES
  ledger,         \* the transactions in the agent address's history, oldest first
  agentJob,       \* per job id: how far the agent's processJob has come with it
  breq,           \* the /api/chat request of the bridge
  bconv           \* the requester's persisted conversation (history.json)

bridgeVars == <<ledger, agentJob, breq, bconv>>

\* The JOB data output on its own (specification SpecCodec).
VARIABLES
  codecPrompt,    \* the prompt, a sequence of UTF-16 code units
  codecVout,      \* the outputs of the job transaction as the ledger shows them
  codecOut        \* what parseJobFromTx returned for them

codecVars == <<codecPrompt, codecVout, codecOut>>

\* The two decoders on arbitrary outputs (specification SpecDecode).
VARIABLES
  decVout,        \* the outputs of a transaction as the ledger shows them
  decJob,         \* what parseJobFromTx returned for them
  decRes          \* what the RES scan of waitForResponse returned for them

decodeVars == <<decVout, decJob, decRes>>

\* Job submission on its own (specification SpecSubmit).
VARIABLES
  subListing,     \* the sender's unspent outputs as the ledger lists them
  subSender,      \* "bridge" (sendJobTx) or "send-job"
  subTx           \* the job transaction handed to the broadcast, or NotSubmitted

submitVars == <<subListing, subSender, subTx>>

\* The ledger gateway: one call, the response it meets and its outcome.
VARIABLES
  gwCall,         \* the function called and the response of the network
  gwOut           \* what the promise settled to
gatewayVars == <<gwCall, gwOut>>

\* The end of processJob with a disk that can fail (specification SpecStore).
VARIABLES
  stUtxos,        \* the request's outputs paying the agent
  stResult,       \* the text inference returned
  stBefore,       \* the Job Store when the broadcast answers
  stEnv,          \* the broadcast's answer and the fate of each write
  stAfter,        \* the Job Store when processJob is left
  stOut           \* "running", "returned" or "threw"
storeVars == <<stUtxos, stResult, stBefore, stEnv, stAfter, stOut>>

\* Poll ticks one after the other with reads that can fail (SpecPoll).
VARIABLES
  pollSeen,       \* lastSeenTxids
  pollJobs,       \* jobs.json
  pollTick,       \* the pollForJobs execution in progress, or IdleTick
  pollCount,      \* the ticks the timer has started
  pollLast,       \* the last answer to a history read, the state it met and
                  \* the kind of the answer before it
  pollCalls       \* the ids handed to processJob so far
pollVars == <<pollSeen, pollJobs, pollTick, pollCount, pollLast, pollCalls>>

\* From the request transaction to the settlement (SpecSettle).
VARIABLES
  setTx,          \* the request transaction as the ledger returns it
  setBuilt,       \* what buildResponseTx returned for it, or NotBuilt
  setRecord       \* the record saved after the broadcast, or NoRecord
settleVars == <<setTx, setBuilt, setRecord>>

\* The ledger scan of waitForResponse over a history anyone can write to
\* (specification SpecScan).
VARIABLES
  scanRest,       \* the entries of the address history still to visit
  scanOut         \* what the scan returned, and who made the transaction
scanVars == <<scanRest, scanOut>>

vars == <<agentVars, builderVars, chatVars, contextVars, bridgeVars,
          codecVars,
          decodeVars,
          submitVars,
          gatewayVars,
          storeVars,
          pollVars,
          settleVars,
          scanVars>>

\* What the actions of one specification leave alone.
notAgentVars == <<builderVars, chatVars, contextVars, bridgeVars, codecVars,
   decodeVars,
   submitVars,
   gatewayVars,
   storeVars,
   pollVars,
   settleVars,
   scanVars>>
notBuilderVars == <<agentVars, chatVars, contextVars, bridgeVars, codecVars,
   decodeVars,
   submitVars,
   gatewayVars,
   storeVars,
   pollVars,
   settleVars,
   scanVars>>
notChatVars == <<agentVars, builderVars, contextVars, bridgeVars, codecVars,
   decodeVars,
   submitVars,
   gatewayVars,
   storeVars,
   pollVars,
   settleVars,
   scanVars>>
notContextVars == <<agentVars, builderVars, chatVars, bridgeVars, codecVars,
   decodeVars,
   submitVars,
   gatewayVars,
   storeVars,
   pollVars,
   settleVars,
   scanVars>>
notCodecVars == <<agentVars, builderVars, chatVars, contextVars, bridgeVars,
   decodeVars,
   submitVars,
   gatewayVars,
   storeVars,
   pollVars,
   settleVars,
   scanVars>>
notDecodeVars ==
  <<agentVars, builderVars, chatVars, contextVars,
    bridgeVars, codecVars,
   submitVars,
   gatewayVars,
   storeVars,
   pollVars,
   settleVars,
   scanVars>>
notSubmitVars ==
  <<agentVars, builderVars, chatVars, contextVars,
    bridgeVars, codecVars, decodeVars,
   gatewayVars,
   storeVars,
   pollVars,
   settleVars,
   scanVars>>
notGatewayVars ==
  <<agentVars, builderVars, chatVars, contextVars,
    bridgeVars, codecVars, decodeVars, submitVars,
   storeVars,
   pollVars,
   settleVars,
   scanVars>>
notStoreVars ==
  <<agentVars, builderVars, chatVars, contextVars,
    bridgeVars, codecVars, decodeVars, submitVars, gatewayVars,
   pollVars,
   settleVars,
   scanVars>>
notPollVars ==
  <<agentVars, builderVars, chatVars, contextVars,
    bridgeVars, codecVars, decodeVars, submitVars, gatewayVars, storeVars,
   settleVars,
   scanVars>>
notSettleVars ==
  <<agentVars, builderVars, chatVars, contextVars,
    bridgeVars, codecVars, decodeVars, submitVars, gatewayVars, storeVars, pollVars,
   scanVars>>
notScanVars ==
  <<agentVars, builderVars, chatVars, contextVars,
    bridgeVars, codecVars, decodeVars, submitVars, gatewayVars, storeVars, pollVars, settleVars>>
\* The bridge specification changes the Job Store and nothing else of the
\* agent.
agentButJobs == <<chain, detail, spentReq, phase, lastSeenTxids, ticks,
                  seeded, skipped, llmFailed>>
notBridgeVars == <<agentButJobs, builderVars, chatVars, contextVars,
                   codecVars,
   decodeVars,
   submitVars,
   gatewayVars,
   storeVars,
   pollVars,
   settleVars,
   scanVars>>

\* parseJobFromTx without the test for the JOB tag.
parseJobFromTxAnyTag(tx, t) == t

\* parseJobFromTx: the prompt of the first JOB data output, or null.
\* The prompt of request t is modelled by t itself.
parseJobFromTx(tx, t) == IF tx.job THEN t ELSE Null

\* findOurOutputs: one utxo per output paying the agent's address.
findOurOutputs(tx, t) ==
  [i \in 1..Len(tx.outs) |-> [txid |-> t, vout |-> i, satoshis |-> tx.outs[i]]]

RECURSIVE SumSats(_)
SumSats(utxos) ==
  IF utxos = <<>> THEN 0 ELSE Head(utxos).satoshis + SumSats(Tail(utxos))

(* ------------------------------ results -------------------------------- *)
\* Texts askLLM can return: an answer, an answer longer than the OP_RETURN
\* ceiling, and the text built from a caught error.
ErrorText == "Error: backend"
Answers == {"answer", "long answer"}
\* Two more for the builder: answers of exactly the ceiling and one byte
\* above it.
BuilderTexts == Answers \cup {ErrorText, "limit answer", "over answer"}
ByteLen(r) ==
  CASE r = "long answer" -> 60000
    [] r = "limit answer" -> MaxResultBytes
    [] r = "over answer" -> MaxResultBytes + 1
    [] OTHER -> 20
HashedNote == "(hashed - see follow-up tx)"

\* A payload is the list of the pieces of text it is made of; a text the
\* builder does not look into is one piece.
HexDigits ==
  <<"0", "1", "2", "3", "4", "5", "6", "7",
    "8", "9", "a", "b", "c", "d", "e", "f">>
\* createHash('sha256').update(buf).digest('hex'): DigestHexLen hex digits
\* that depend on the text.
Sha256Hex(text) ==
  [i \in 1..DigestHexLen |-> HexDigits[((ByteLen(text) + i) % 16) + 1]]
HashPlaceholder(text) == <<"HASH:">> \o Sha256Hex(text)

\* Buffer.from(txid, 'hex'): the id as bytes. Two bytes stand for the 32, so
\* that ids 2k-1 and 2k are each other's reversal.
Partner(t) == IF t % 2 = 1 THEN t + 1 ELSE t - 1
TxidBytes(t) == <<t, Partner(t)>>
\* Buffer.prototype.reverse
ReverseBytes(b) == [i \in 1..Len(b) |-> b[Len(b) + 1 - i]]

\* askLLM without its try/catch: a failed call is thrown to the caller.
askLLMThrows(outcome) ==
  IF outcome = "fail" THEN [threw |-> TRUE, text |-> ""]
  ELSE [threw |-> FALSE, text |-> outcome]

\* askLLM, lines 153-169: the try/catch around the inference call. It never
\* throws: a failed call gives the text "Error: ...".
askLLM(outcome) ==
  IF outcome = "fail" THEN [threw |-> FALSE, text |-> ErrorText]
  ELSE [threw |-> FALSE, text |-> outcome]

(* ------------------------- settlement builder -------------------------- *)
\* buildResponseTx with the change test keep >= 0 in place of keep > 0.
buildResponseTxZeroChange(utxos, jobTxid, resultText) ==
  LET isHashed == ByteLen(resultText) > MaxResultBytes
      payload  == IF isHashed THEN HashPlaceholder(resultText)
                  ELSE <<resultText>>
      keep     == SumSats(utxos) - FEE
      dataOut  == [kind |-> "RES", ref |-> ReverseBytes(TxidBytes(jobTxid)),
                   data |-> payload, satoshis |-> 0]
      change   == [kind |-> "P2PKH", ref |-> <<>>, data |-> <<>>,
                   satoshis |-> keep]
  IN [tx |-> [inputs  |-> utxos,
              outputs |-> IF keep >= 0 THEN <<dataOut, change>> ELSE <<dataOut>>],
      isHashed |-> isHashed,
      keep |-> keep]

\* buildResponseTx with the size test >= in place of >.
buildResponseTxFromCeiling(utxos, jobTxid, resultText) ==
  LET isHashed == ByteLen(resultText) >= MaxResultBytes
      payload  == IF isHashed THEN HashPlaceholder(resultText)
                  ELSE <<resultText>>
      totalIn  == SumSats(utxos)
      keep     == totalIn - FEE
      dataOut  == [kind |-> "RES", ref |-> ReverseBytes(TxidBytes(jobTxid)),
                   data |-> payload, satoshis |-> 0]
      change   == [kind |-> "P2PKH", ref |-> <<>>, data |-> <<>>,
                   satoshis |-> keep]
  IN [tx |-> [inputs  |-> utxos,
              outputs |-> IF keep > 0 THEN <<dataOut, change>> ELSE <<dataOut>>],
      isHashed |-> isHashed,
      keep |-> keep]

\* buildResponseTx with the request id stored as it is read, not reversed.
buildResponseTxUnreversed(utxos, jobTxid, resultText) ==
  LET isHashed == ByteLen(resultText) > MaxResultBytes
      payload  == IF isHashed THEN HashPlaceholder(resultText)
                  ELSE <<resultText>>
      totalIn  == SumSats(utxos)
      keep     == totalIn - FEE
      dataOut  == [kind |-> "RES", ref |-> TxidBytes(jobTxid),
                   data |-> payload, satoshis |-> 0]
      change   == [kind |-> "P2PKH", ref |-> <<>>, data |-> <<>>,
                   satoshis |-> keep]
  IN [tx |-> [inputs  |-> utxos,
              outputs |-> IF keep > 0 THEN <<dataOut, change>> ELSE <<dataOut>>],
      isHashed |-> isHashed,
      keep |-> keep]

\* buildResponseTx: inputs are all given utxos; output 0 is the RES data
\* output with 0 satoshis; output 1 is the change, only when keep > 0.
buildResponseTx(utxos, jobTxid, resultText) ==
  LET isHashed == ByteLen(resultText) > MaxResultBytes
      payload  == IF isHashed THEN HashPlaceholder(resultText)
                  ELSE <<resultText>>
      totalIn  == SumSats(utxos)
      keep     == totalIn - FEE
      dataOut  == [kind |-> "RES", ref |-> ReverseBytes(TxidBytes(jobTxid)),
                   data |-> payload, satoshis |-> 0]
      change   == [kind |-> "P2PKH", ref |-> <<>>, data |-> <<>>,
                   satoshis |-> keep]
  IN [tx |-> [inputs  |-> utxos,
              outputs |-> IF keep > 0 THEN <<dataOut, change>> ELSE <<dataOut>>],
      isHashed |-> isHashed,
      keep |-> keep]

\* A pollForJobs execution: where it is suspended (pc), the history entries
\* its loop has still to visit (hist), the id it handed to processJob (txid)
\* and processJob's result text.
NewTick == [pc |-> "history", hist |-> <<>>, txid |-> Null, result |-> ""]
Without(e) == ticks (-) SetToBag({e})
Become(e, f) == Without(e) (+) SetToBag({f})
Execs == BagToSet(ticks)

(* ------------------------------ job store ------------------------------ *)
JobIds(js) == {js[i].jobTxid : i \in 1..Len(js)}
isJobProcessed(js, txid) == \E i \in 1..Len(js) : js[i].jobTxid = txid
\* saveJob that writes the new record alone.
saveJobOverwrite(js, job) == <<job>>
\* saveJob that pushes the record twice.
saveJobTwice(js, job) == Append(Append(js, job), job)
\* saveJob, lines 108-112: the whole array is read (loadJobs), the record is
\* pushed at its end and the array is written back.
saveJob(js, job) == Append(js, job)

\* The id wocBroadcast resolves to for the settlement of request t.
ResTxidOf(t) == NumTx + NumJobs + t

\* The success record with the error key of the failure record added.
SettledRecordWithError(tx, t, result) ==
  [jobTxid |-> t, resTxid |-> ResTxidOf(t), prompt |-> parseJobFromTx(tx, t),
   result |-> result,
   satsReceived |-> SumSats(findOurOutputs(tx, t)),
   satsKept |-> SumSats(findOurOutputs(tx, t)) - FEE,
   isHashed |-> FALSE, error |-> TRUE]

\* The failure record without the request id it belongs to.
FailedRecordUnkeyed(tx, t, result) ==
  [jobTxid |-> Null, resTxid |-> Null, prompt |-> parseJobFromTx(tx, t),
   result |-> result,
   satsReceived |-> SumSats(findOurOutputs(tx, t)), satsKept |-> 0,
   isHashed |-> FALSE, error |-> TRUE]

\* processJob, lines 276-285: the record saved after a successful broadcast.
\* error |-> FALSE stands for "no error key".
SettledRecord(tx, t, result) ==
  LET utxos == findOurOutputs(tx, t)
      built == buildResponseTx(utxos, t, result)
  IN [jobTxid |-> t, resTxid |-> ResTxidOf(t), prompt |-> parseJobFromTx(tx, t),
      result |-> IF built.isHashed THEN HashedNote ELSE result,
      satsReceived |-> SumSats(utxos), satsKept |-> built.keep,
      isHashed |-> built.isHashed, error |-> FALSE]

\* processJob, lines 293-302: the record saved when the broadcast raised.
\* isHashed |-> FALSE stands for "no isHashed key".
FailedRecord(tx, t, result) ==
  [jobTxid |-> t, resTxid |-> Null, prompt |-> parseJobFromTx(tx, t),
   result |-> result,
   satsReceived |-> SumSats(findOurOutputs(tx, t)), satsKept |-> 0,
   isHashed |-> FALSE, error |-> TRUE]

(* ------------------------------ poller --------------------------------- *)
Range(h) == {h[i] : i \in 1..Len(h)}

\* The address-history responses the ledger can give: the ids it lists for
\* the address, in any order, possibly repeated or not yet complete.
RECURSIVE SeqsUpTo(_, _)
SeqsUpTo(S, n) ==
  IF n = 0 THEN {<<>>}
  ELSE LET shorter == SeqsUpTo(S, n - 1)
       IN shorter \cup {Append(h, t) : h \in shorter, t \in S}

Listings == SeqsUpTo(chain, MaxHist)

\* The loop without the seen-set test of line 315: only the Job Store
\* keeps an id from being handed on.
RECURSIVE LoopFromUnseen(_, _, _)
LoopFromUnseen(h, seen, js) ==
  IF h = <<>> THEN [seen |-> seen, hist |-> <<>>, txid |-> Null, again |-> {}]
  ELSE LET t == Head(h) IN
    IF isJobProcessed(js, t)
      THEN LET r == LoopFromUnseen(Tail(h), seen \cup {t}, js)
           IN [r EXCEPT !.again = @ \cup {t}]
    ELSE [seen |-> seen \cup {t}, hist |-> Tail(h), txid |-> t, again |-> {}]

\* The loop with the insertion into the seen-set left for after the await:
\* an id handed on is not yet in the set.
RECURSIVE LoopFromLateInsert(_, _, _)
LoopFromLateInsert(h, seen, js) ==
  IF h = <<>> THEN [seen |-> seen, hist |-> <<>>, txid |-> Null, again |-> {}]
  ELSE LET t == Head(h) IN
    IF t \in seen
      THEN LET r == LoopFromLateInsert(Tail(h), seen, js)
           IN [r EXCEPT !.again = @ \cup {t}]
    ELSE IF isJobProcessed(js, t)
      THEN LET r == LoopFromLateInsert(Tail(h), seen \cup {t}, js)
           IN [r EXCEPT !.again = @ \cup {t}]
    ELSE [seen |-> seen, hist |-> Tail(h), txid |-> t, again |-> {}]

\* pollForJobs, lines 313-323: the for loop from the head of h up to its
\* first await (an id handed on: txid) or its end (txid = Null). `again`
\* collects the ids the loop skipped.
RECURSIVE LoopFrom(_, _, _)
LoopFrom(h, seen, js) ==
  IF h = <<>> THEN [seen |-> seen, hist |-> <<>>, txid |-> Null, again |-> {}]
  ELSE LET t == Head(h) IN
    IF t \in seen
      THEN LET r == LoopFrom(Tail(h), seen, js)
           IN [r EXCEPT !.again = @ \cup {t}]
    ELSE IF isJobProcessed(js, t)
      THEN LET r == LoopFrom(Tail(h), seen \cup {t}, js)
           IN [r EXCEPT !.again = @ \cup {t}]
    ELSE [seen |-> seen \cup {t}, hist |-> Tail(h), txid |-> t, again |-> {}]

\* Execution e runs the loop over h with the Job Store js, until it
\* suspends on the settling delay of the next id or returns.
Proceed(e, h, js) ==
  LET r == LoopFrom(h, lastSeenTxids, js) IN
  /\ lastSeenTxids' = r.seen
  /\ skipped' = skipped \cup {t \in r.again : isJobProcessed(js, t)}
  /\ ticks' = IF r.txid = Null THEN Without(e)
              ELSE Become(e, [pc |-> "delay", hist |-> r.hist,
                              txid |-> r.txid, result |-> ""])

\* pollForJobs, lines 324-326: an error thrown inside the loop ends the tick.
Caught(e) ==
  /\ ticks' = Without(e)
  /\ UNCHANGED <<lastSeenTxids, skipped>>

(* ------------------------------ actions -------------------------------- *)
\* The builder and the chat front-end at rest (not part of this process).
NotBuilt == [tx |-> [inputs |-> <<>>, outputs |-> <<>>],
             isHashed |-> FALSE, keep |-> 0]
NoRecord == [jobTxid |-> Null, resTxid |-> Null, prompt |-> Null,
             result |-> "", satsReceived |-> 0, satsKept |-> 0,
             isHashed |-> FALSE, error |-> FALSE]
BuilderIdle ==
  /\ inputs = <<>> /\ resultIn = ""
  /\ builderOut = NotBuilt /\ recordOut = NoRecord

IdleReq == [pc |-> "idle", prompt |-> "", history |-> <<>>, result |-> "",
            tx |-> [inputs |-> <<>>, outputs |-> <<>>], status |-> 0]
ChatReqs == 1..NumReqs
ChatIdle ==
  /\ conv = <<>> /\ reqs = [r \in ChatReqs |-> IdleReq]
  /\ utxoSet = {} /\ sentInputs = {} /\ reselected = {}

BridgeIds == 1..NumJobs
IdleBridgeReq ==
  [pc |-> "idle", prompt |-> "", history |-> <<>>, jobTxid |-> Null,
   rounds |-> 0, storeRound |-> 0, scan |-> <<>>, result |-> <<>>,
   resTxid |-> Null, timedOut |-> FALSE, status |-> 0]
NoWork == [pc |-> "none", result |-> ""]
BridgeIdle ==
  /\ ledger = <<>> /\ agentJob = [t \in BridgeIds |-> NoWork]
  /\ breq = IdleBridgeReq /\ bconv = <<>>

NotDecoded == [done |-> FALSE, found |-> FALSE, text |-> <<>>]
NotSubmitted == [status |-> "none", inputs |-> <<>>, outputs |-> <<>>]
SubmitIdle ==
  subListing = <<>> /\ subSender = "" /\ subTx = NotSubmitted

NoCall == [fn |-> "", netError |-> FALSE, status |-> 0, body |-> ""]
Unsettled == [kind |-> "pending", value |-> ""]
GatewayIdle == gwCall = NoCall /\ gwOut = Unsettled

NoEnv == [accepted |-> FALSE, firstWrite |-> FALSE, secondWrite |-> FALSE]
IdleTick == [pc |-> "idle", hist |-> <<>>, txid |-> Null]
NoRead == [kind |-> "none", prev |-> "none", list |-> <<>>, seen |-> {},
           jobs |-> <<>>]
PollIdle ==
  /\ pollSeen = {} /\ pollJobs = <<>> /\ pollTick = IdleTick /\ pollCount = 0
  /\ pollLast = NoRead /\ pollCalls = {}

NotScanned == [done |-> FALSE, text |-> <<>>, by |-> ""]
ScanIdle == scanRest = <<>> /\ scanOut = NotScanned
NoRequest == [txid |-> Null, vout |-> <<>>]
SettleIdle == setTx = NoRequest /\ setBuilt = NotBuilt /\ setRecord = NoRecord

StoreIdle ==
  /\ stUtxos = <<>> /\ stResult = "" /\ stBefore = <<>> /\ stEnv = NoEnv
  /\ stAfter = <<>> /\ stOut = ""

DecodeIdle ==
  decVout = <<>> /\ decJob = NotDecoded /\ decRes = NotDecoded

CodecIdle ==
  codecPrompt = <<>> /\ codecVout = <<>> /\ codecOut = NotDecoded

ContextIdle ==
  /\ ctxHistory = <<>> /\ ctxPrompt = "" /\ ctxFrontEnd = "" /\ ctxOut = <<>>

\* The agent before main has run: empty ledger view, no jobs.json.
AgentInit ==
  /\ chain = {} /\ detail = [t \in TxIds |-> NoTx]
  /\ spentReq = {} /\ jobs = <<>>
  /\ phase = "starting" /\ lastSeenTxids = {}
  /\ ticks = EmptyBag
  /\ seeded = {} /\ skipped = {} /\ llmFailed = {}

Init ==
  AgentInit /\ BuilderIdle /\ ChatIdle /\ ContextIdle /\ BridgeIdle /\ CodecIdle
  /\ ScanIdle
  /\ SettleIdle
  /\ PollIdle
  /\ StoreIdle
  /\ GatewayIdle
  /\ SubmitIdle
  /\ DecodeIdle

\* The ledger: a transaction touching the agent's address becomes visible.
Arrive(t) ==
  /\ t \notin chain
  /\ \A u \in TxIds : u < t => u \in chain
  /\ chain' = chain \cup {t}
  /\ \E tx \in TxKinds : detail' = [detail EXCEPT ![t] = tx]
  /\ UNCHANGED <<spentReq, jobs, phase, lastSeenTxids, ticks,
                 seeded, skipped, llmFailed>>
  /\ UNCHANGED notAgentVars

\* The agent process is stopped and started again: memory is lost, the
\* files and the ledger stay. A broadcast that was in flight may have
\* reached the ledger.
Restart ==
  /\ phase = "up"
  /\ phase' = "starting"
  /\ lastSeenTxids' = {}
  /\ ticks' = EmptyBag
  /\ seeded' = {} /\ skipped' = {} /\ llmFailed' = {}
  /\ \E S \in SUBSET {e.txid : e \in {f \in Execs : f.pc = "broadcast"}} :
        spentReq' = spentReq \cup S
  /\ UNCHANGED <<chain, detail, jobs>>
  /\ UNCHANGED notAgentVars

\* main, lines 355-368: seed the seen-set from the history (when the read
\* succeeds) and from the Job Store, then start the timer.
SeedFrom(listed, js) == listed \cup JobIds(js)

Startup ==
  /\ phase = "starting"
  /\ \/ \E h \in Listings :
          /\ seeded' = Range(h)
          /\ lastSeenTxids' = SeedFrom(Range(h), jobs)
     \/ \* the read was rejected, or did not return an array
        /\ seeded' = {}
        /\ lastSeenTxids' = SeedFrom({}, jobs)
  /\ phase' = "up"
  /\ UNCHANGED <<chain, detail, spentReq, jobs, ticks, skipped, llmFailed>>
  /\ UNCHANGED notAgentVars

\* setInterval fires: pollForJobs starts and suspends on the history read.
\* The timer does not look at the executions still in progress.
TimerFire ==
  /\ phase = "up"
  /\ BagCardinality(ticks) < MaxTicks
  /\ ticks' = ticks (+) SetToBag({NewTick})
  /\ UNCHANGED <<chain, detail, spentReq, jobs, phase, lastSeenTxids,
                 seeded, skipped, llmFailed>>
  /\ UNCHANGED notAgentVars

\* pollForJobs, lines 310-311 and 324-326: the history read returns.
HistoryResp(e) ==
  /\ e.pc = "history"
  /\ \/ \* rejected (caught, logged) or not an array (return)
        Caught(e)
     \/ \E h \in Listings : Proceed(e, h, jobs)
  /\ UNCHANGED <<chain, detail, spentReq, jobs, phase, seeded, llmFailed>>
  /\ UNCHANGED notAgentVars

\* pollForJobs, lines 321-322, processJob, line 245: the settling delay
\* ends, processJob is called and suspends on the transaction read.
DelayDone(e) ==
  /\ e.pc = "delay"
  /\ ticks' = Become(e, [e EXCEPT !.pc = "fetchTx"])
  /\ UNCHANGED <<chain, detail, spentReq, jobs, phase, lastSeenTxids,
                 seeded, skipped, llmFailed>>
  /\ UNCHANGED notAgentVars

\* processJob, lines 245-262: the transaction read returns.
TxResp(e) ==
  LET t == e.txid
      tx == detail[t]
  IN
  /\ e.pc = "fetchTx"
  /\ \/ \* rejected: thrown out of processJob, caught by pollForJobs
        Caught(e)
     \/ \* not found (404) or not JSON: processJob returns
        Proceed(e, e.hist, jobs)
     \/ \* the transaction
        IF parseJobFromTx(tx, t) = Null \/ findOurOutputs(tx, t) = <<>>
          THEN Proceed(e, e.hist, jobs)
          ELSE /\ ticks' = Become(e, [e EXCEPT !.pc = "llm"])
               /\ UNCHANGED <<lastSeenTxids, skipped>>
  /\ UNCHANGED <<chain, detail, spentReq, jobs, phase, seeded, llmFailed>>
  /\ UNCHANGED notAgentVars

\* processJob, lines 262-271: askLLM returns, the settlement is built and
\* its broadcast is sent.
LLMResp(e) ==
  /\ e.pc = "llm"
  /\ \E outcome \in Answers \cup {"fail"} :
       LET r == askLLM(outcome) IN
       /\ llmFailed' = IF outcome = "fail" THEN llmFailed \cup {e.txid}
                                            ELSE llmFailed
       /\ IF r.threw
            THEN Caught(e)
            ELSE /\ ticks' = Become(e, [e EXCEPT !.pc = "broadcast",
                                                 !.result = r.text])
                 /\ UNCHANGED <<lastSeenTxids, skipped>>
  /\ UNCHANGED <<chain, detail, spentReq, jobs, phase, seeded>>
  /\ UNCHANGED notAgentVars

\* processJob, lines 271-303: wocBroadcast resolves (the ledger accepted the
\* settlement, which needs the request's outputs unspent) or rejects (the
\* ledger refused it, or the call failed); the record is saved, processJob
\* returns and the poll loop goes on.
BroadcastResp(e) ==
  LET t == e.txid IN
  /\ e.pc = "broadcast"
  /\ \/ /\ t \notin spentReq
        /\ spentReq' = spentReq \cup {t}
        /\ jobs' = saveJob(jobs, SettledRecord(detail[t], t, e.result))
     \/ /\ spentReq' = spentReq
        /\ jobs' = saveJob(jobs, FailedRecord(detail[t], t, e.result))
  /\ Proceed(e, e.hist, jobs')
  /\ UNCHANGED <<chain, detail, phase, seeded, llmFailed>>
  /\ UNCHANGED notAgentVars

Next ==
  \/ \E t \in TxIds : Arrive(t)
  \/ Restart
  \/ Startup
  \/ TimerFire
  \/ \E e \in Execs : HistoryResp(e)
  \/ \E e \in Execs : DelayDone(e)
  \/ \E e \in Execs : TxResp(e)
  \/ \E e \in Execs : LLMResp(e)
  \/ \E e \in Execs : BroadcastResp(e)

Spec == Init /\ [][Next]_vars

(* ---------------- the settlement builder on its own -------------------- *)
\* Amounts (satoshis) of the outputs a request pays to the agent, around FEE.
BuilderAmounts == {1, 150, 299, 300, 301, 5000}

UtxosOf(amounts) ==
  [i \in 1..Len(amounts) |-> [txid |-> 1, vout |-> i, satoshis |-> amounts[i]]]

BuilderInputs ==
  {UtxosOf(a) : a \in SeqsUpTo(BuilderAmounts, MaxInputs) \ {<<>>}}

InitBuilder ==
  /\ inputs \in BuilderInputs
  /\ resultIn \in BuilderTexts
  /\ builderOut = NotBuilt /\ recordOut = NoRecord
  /\ AgentInit /\ ChatIdle /\ ContextIdle /\ BridgeIdle /\ CodecIdle
  /\ ScanIdle
  /\ SettleIdle
  /\ PollIdle
  /\ StoreIdle
  /\ GatewayIdle
  /\ SubmitIdle
  /\ DecodeIdle

\* processJob, line 266: the builder is applied to the request's outputs.
Build ==
  /\ builderOut = NotBuilt
  /\ builderOut' = buildResponseTx(inputs, 1, resultIn)
  /\ UNCHANGED <<inputs, resultIn, recordOut, notBuilderVars>>

\* The request whose outputs to the agent are the given utxos.
RequestOf(utxos) ==
  [job |-> TRUE, outs |-> [i \in 1..Len(utxos) |-> utxos[i].satoshis]]

\* processJob, lines 271-285: the broadcast is accepted and the record saved.
Record ==
  /\ builderOut # NotBuilt /\ recordOut = NoRecord
  /\ recordOut' = SettledRecord(RequestOf(inputs), 1, resultIn)
  /\ UNCHANGED <<inputs, resultIn, builderOut, notBuilderVars>>

NextBuilder == Build \/ Record

SpecBuilder == InitBuilder /\ [][NextBuilder]_vars

(* ------------- the single-transaction chat front-end, web.cjs ---------- *)
\* Request bodies: no prompt (body.prompt || ''), a prompt of spaces, and a
\* prompt.
Prompts == {"", "  ", "hi"}
\* trim that strips nothing.
TrimNothing(p) == p
\* String.prototype.trim
Trim(p) == IF p = "  " THEN "" ELSE p

\* Amounts of the outputs the wallet holds at the start.
ChatAmounts == {3000, 6000}
WalletOf(amounts) ==
  {[tx_hash |-> i, value |-> amounts[i]] : i \in 1..Len(amounts)}
Wallets == {WalletOf(a) : a \in SeqsUpTo(ChatAmounts, MaxUtxos)}

\* The id wocBroadcast resolves to for the transaction of request r.
ChatTxid(r) == MaxUtxos + r

\* GET /address/<a>/unspent: the unspent outputs as a list.
RECURSIVE Unspent(_)
Unspent(U) ==
  IF U = {} THEN <<>>
  ELSE LET u == CHOOSE x \in U : \A y \in U : x.tx_hash <= y.tx_hash
       IN <<u>> \o Unspent(U \ {u})

\* postOnChain, lines 206-219: inputs are taken in listing order until the
\* total reaches 5000.
RECURSIVE SelectInputs(_, _)
SelectInputs(utxos, totalIn) ==
  IF utxos = <<>> THEN <<>>
  ELSE LET u == Head(utxos) IN
       IF totalIn + u.value >= EnoughSats THEN <<u>>
       ELSE <<u>> \o SelectInputs(Tail(utxos), totalIn + u.value)

RECURSIVE SumValues(_)
SumValues(utxos) ==
  IF utxos = <<>> THEN 0 ELSE Head(utxos).value + SumValues(Tail(utxos))

Max(a, b) == IF a >= b THEN a ELSE b

\* postOnChain, lines 203-242: the transaction built from the listing.
postOnChain(utxos, prompt, result) ==
  LET sel == SelectInputs(utxos, 0)
      totalIn == SumValues(sel)
      dataSize == ByteLen(prompt) + ByteLen(result) + 20
      estimatedSize == Len(sel) * 150 + dataSize + 50
      fee == Max(MIN_FEE, estimatedSize * FEE_RATE)
      change == totalIn - fee
      dataOut == [kind |-> "CHAT", satoshis |-> 0]
  IN [inputs |-> sel,
      outputs |-> IF change >= DustLimit
                    THEN <<dataOut, [kind |-> "P2PKH", satoshis |-> change]>>
                    ELSE <<dataOut>>]

\* web.cjs askLLM, lines 175-193: as the agent's, a failed call gives text.
chatAskLLM(outcome) ==
  IF outcome = "fail" THEN ErrorText ELSE outcome

\* The final entry with the pending flag left on.
FinalEntryStillPending(prompt, result, txid, timestamp) ==
  [prompt |-> prompt, result |-> result, txid |-> txid,
   timestamp |-> timestamp, pending |-> TRUE]

\* The conversation entries of lines 501 and 516. result |-> "" stands for
\* null, pending |-> FALSE for "no pending key"; the timestamp of an entry is
\* modelled by the number of the request that wrote it.
PendingEntry(prompt, timestamp) ==
  [prompt |-> prompt, result |-> "", txid |-> Null,
   timestamp |-> timestamp, pending |-> TRUE]
FinalEntry(prompt, result, txid, timestamp) ==
  [prompt |-> prompt, result |-> result, txid |-> txid,
   timestamp |-> timestamp, pending |-> FALSE]

InitChat ==
  /\ conv = <<>> /\ reqs = [r \in ChatReqs |-> IdleReq]
  /\ utxoSet \in Wallets
  /\ sentInputs = {} /\ reselected = {}
  /\ AgentInit /\ BuilderIdle /\ ContextIdle /\ BridgeIdle /\ CodecIdle
  /\ ScanIdle
  /\ SettleIdle
  /\ PollIdle
  /\ StoreIdle
  /\ GatewayIdle
  /\ SubmitIdle
  /\ DecodeIdle

\* /api/chat, lines 521-527: the catch block. The last persisted entry is
\* removed when it is pending; the request is answered with 500.
ChatCatch(r) ==
  /\ conv' = IF conv # <<>> /\ conv[Len(conv)].pending
               THEN SubSeq(conv, 1, Len(conv) - 1) ELSE conv
  /\ reqs' = [reqs EXCEPT ![r] = [@ EXCEPT !.pc = "done", !.status = 500]]

\* /api/chat, lines 489-508: the body is parsed; a blank prompt is answered
\* with 400; else the pending entry is saved and inference is called.
\* Requests are numbered in the order their handlers start.
ChatStart(r) ==
  /\ reqs[r].pc = "idle"
  /\ \A q \in ChatReqs : q < r => reqs[q].pc # "idle"
  /\ \E raw \in Prompts :
       LET prompt == Trim(raw)
           history == Append(conv, PendingEntry(prompt, r))
       IN IF prompt = ""
            THEN /\ reqs' = [reqs EXCEPT ![r] = [@ EXCEPT !.pc = "done",
                                                          !.status = 400]]
                 /\ UNCHANGED conv
            ELSE /\ conv' = history
                 /\ reqs' = [reqs EXCEPT ![r] = [@ EXCEPT !.pc = "llm",
                                                          !.prompt = prompt,
                                                          !.history = history]]
  /\ UNCHANGED <<utxoSet, sentInputs, reselected, notChatVars>>

\* /api/chat, lines 507-512, postOnChain, line 202: inference returns or the
\* 120 s timer rejects; postOnChain asks for the unspent outputs.
ChatLLM(r) ==
  /\ reqs[r].pc = "llm"
  /\ \E outcome \in {"answer", "fail", "timeout"} :
       IF outcome = "timeout"
         THEN ChatCatch(r)
         ELSE /\ reqs' = [reqs EXCEPT ![r] = [@ EXCEPT !.pc = "unspent",
                                                       !.result = chatAskLLM(outcome)]]
              /\ UNCHANGED conv
  /\ UNCHANGED <<utxoSet, sentInputs, reselected, notChatVars>>

\* postOnChain, lines 202-258: the listing returns; the transaction is built
\* from it and handed to wocBroadcast.
ChatUnspent(r) ==
  /\ reqs[r].pc = "unspent"
  /\ \/ \* the read was rejected
        /\ ChatCatch(r)
        /\ UNCHANGED <<sentInputs, reselected>>
     \/ LET utxos == Unspent(utxoSet)
            tx == postOnChain(utxos, reqs[r].prompt, reqs[r].result)
        IN IF utxos = <<>>
             THEN \* 'Agent wallet has no funds'
                  /\ ChatCatch(r)
                  /\ UNCHANGED <<sentInputs, reselected>>
             ELSE /\ reqs' = [reqs EXCEPT ![r] = [@ EXCEPT !.pc = "broadcast",
                                                           !.tx = tx]]
                  /\ reselected' = reselected \cup (Range(tx.inputs) \cap sentInputs)
                  /\ sentInputs' = sentInputs \cup Range(tx.inputs)
                  /\ UNCHANGED conv
  /\ UNCHANGED <<utxoSet, notChatVars>>

\* postOnChain, lines 258-259, /api/chat, lines 512-520: wocBroadcast
\* resolves (the ledger took the transaction: its inputs were unspent) and
\* the pending entry is replaced; or it rejects.
ChatBroadcast(r) ==
  LET q == reqs[r]
      tx == q.tx
      spent == Range(tx.inputs)
      history == [q.history EXCEPT ![Len(q.history)] =
                     FinalEntry(q.prompt, q.result, ChatTxid(r), r)]
  IN
  /\ q.pc = "broadcast"
  /\ \/ /\ spent \subseteq utxoSet
        /\ utxoSet' = (utxoSet \ spent) \cup
              (IF Len(tx.outputs) > 1
                 THEN {[tx_hash |-> ChatTxid(r), value |-> tx.outputs[2].satoshis]}
                 ELSE {})
        /\ conv' = history
        /\ reqs' = [reqs EXCEPT ![r] = [@ EXCEPT !.pc = "done", !.status = 200,
                                                 !.history = history]]
     \/ /\ ChatCatch(r)
        /\ UNCHANGED utxoSet
  /\ UNCHANGED <<sentInputs, reselected, notChatVars>>

NextChat ==
  \E r \in ChatReqs :
     \/ ChatStart(r)
     \/ ChatLLM(r)
     \/ ChatUnspent(r)
     \/ ChatBroadcast(r)

SpecChat == InitChat /\ [][NextChat]_vars

(* --------------------- buildContextPrompt on its own ------------------- *)
\* The exchanges a conversation can hold: answered ones and, in web.cjs,
\* one still pending (result null, shown as "").
Exchanges ==
  { [prompt |-> "hi", result |-> "answer"],
    [prompt |-> "yo", result |-> ""] }

\* history.slice(-limit): the last `limit` entries, all when there are fewer.
\* The variant takes the first `limit` entries.
SliceFirst(history, limit) ==
  IF Len(history) <= limit THEN history ELSE SubSeq(history, 1, limit)

SliceLast(history, limit) ==
  IF Len(history) <= limit THEN history
  ELSE SubSeq(history, Len(history) - limit + 1, Len(history))

\* The text built by buildContextPrompt as its list of lines. A line is what
\* stands before the colon and what after it; the bare prompt and the header
\* have nothing before.
RECURSIVE ContextLines(_)
ContextLines(recent) ==
  IF recent = <<>> THEN <<>>
  ELSE << [speaker |-> "User", text |-> Head(recent).prompt],
          [speaker |-> "Assistant", text |-> Head(recent).result] >>
       \o ContextLines(Tail(recent))

ContextOf(recent, newPrompt) ==
  IF Len(recent) = 0 THEN << [speaker |-> "", text |-> newPrompt] >>
  ELSE << [speaker |-> "", text |-> "Previous conversation:"] >>
       \o ContextLines(recent)
       \o << [speaker |-> "User", text |-> newPrompt] >>

\* web.cjs, lines 109-118.
buildContextPrompt(history, newPrompt) ==
  ContextOf(SliceLast(history, CONTEXT_LIMIT), newPrompt)

\* The bridge front-end, part_000 lines 90-100.
bridgeBuildContextPrompt(history, newPrompt) ==
  ContextOf(SliceLast(history, BridgeContextLimit), newPrompt)

LimitOf(frontEnd) ==
  IF frontEnd = "web" THEN CONTEXT_LIMIT ELSE BridgeContextLimit

InitContext ==
  /\ ctxHistory \in SeqsUpTo(Exchanges, MaxHistory)
  /\ ctxPrompt \in {"hi", "yo"}
  /\ ctxFrontEnd \in {"web", "bridge"}
  /\ ctxOut = <<>>
  /\ AgentInit /\ BuilderIdle /\ ChatIdle /\ BridgeIdle /\ CodecIdle
  /\ ScanIdle
  /\ SettleIdle
  /\ PollIdle
  /\ StoreIdle
  /\ GatewayIdle
  /\ SubmitIdle
  /\ DecodeIdle

\* /api/chat, web.cjs line 498 and part_000 line 420: the context is built.
BuildContext ==
  /\ ctxOut = <<>>
  /\ ctxOut' = IF ctxFrontEnd = "web"
                 THEN buildContextPrompt(ctxHistory, ctxPrompt)
                 ELSE bridgeBuildContextPrompt(ctxHistory, ctxPrompt)
  /\ UNCHANGED <<ctxHistory, ctxPrompt, ctxFrontEnd, notContextVars>>

NextContext == BuildContext

SpecContext == InitContext /\ [][NextContext]_vars

(* --------------------- the bridge front-end, part_000 ------------------ *)
\* A JOB transaction as the ledger shows it: the data output and the payment
\* of SATS_PER_JOB to the agent.
JobTx(t, context) ==
  [txid |-> t,
   outputs |-> << [kind |-> "JOB", ref |-> <<>>, data |-> context,
                   satoshis |-> 0],
                  [kind |-> "P2PKH", ref |-> <<>>, data |-> <<>>,
                   satoshis |-> SATS_PER_JOB] >>]

\* What the agent reads of such a request, and the settlement it builds.
RequestPaid == [job |-> TRUE, outs |-> <<SATS_PER_JOB>>]
SettlementTx(t, text) ==
  [txid |-> ResTxidOf(t),
   outputs |->
     buildResponseTx(findOurOutputs(RequestPaid, t), t, text).tx.outputs]

OnLedger(t) == \E i \in 1..Len(ledger) : ledger[i].txid = t
TxOf(t) == ledger[CHOOSE i \in 1..Len(ledger) : ledger[i].txid = t]
FreeIds == {t \in BridgeIds : ~OnLedger(t)}
\* Ids are given out in order.
NextJobId == CHOOSE t \in FreeIds : \A u \in FreeIds : t <= u

\* The back-reference test of waitForResponse without the reversal.
RefMatchesUnreversed(ref, jobTxid) == ref = TxidBytes(jobTxid)

\* waitForResponse, lines 198-199: the second push, reversed, as hex equals
\* the job id.
RefMatches(ref, jobTxid) == ReverseBytes(ref) = TxidBytes(jobTxid)

\* waitForResponse, lines 190-202: the payload of the first RES output of
\* the transaction that refers to the job, or <<>>.
RECURSIVE matchRes(_, _)
matchRes(outs, jobTxid) ==
  IF outs = <<>> THEN <<>>
  ELSE IF Head(outs).kind = "RES" /\ RefMatches(Head(outs).ref, jobTxid)
         THEN Head(outs).data
         ELSE matchRes(Tail(outs), jobTxid)

\* waitForResponse, lines 179-183: the result of the first record of the
\* job that has a settlement id, as a payload, or <<>>.
StoreHits(js, jobTxid) ==
  {i \in 1..Len(js) : js[i].jobTxid = jobTxid /\ js[i].resTxid # Null}
storeResult(js, jobTxid) ==
  IF StoreHits(js, jobTxid) = {} THEN <<>>
  ELSE LET i == CHOOSE h \in StoreHits(js, jobTxid) :
                  \A g \in StoreHits(js, jobTxid) : h <= g
       IN <<js[i].result>>

\* /api/chat, lines 437-443: the settlement id of the first record of the
\* job, or null.
storeResTxid(js, jobTxid) ==
  LET found == {i \in 1..Len(js) : js[i].jobTxid = jobTxid}
  IN IF found = {} THEN Null
     ELSE js[CHOOSE h \in found : \A g \in found : h <= g].resTxid

\* /api/chat, lines 432-453, once waitForResponse returned a result.
Answered(req, result) ==
  [req EXCEPT !.pc = "done", !.status = 200, !.result = result,
              !.scan = <<>>,
              !.resTxid = storeResTxid(jobs, req.jobTxid)]
NewEntry(req) ==
  [prompt |-> req.prompt, result |-> req.result,
   jobTxid |-> req.jobTxid, resTxid |-> req.resTxid]

\* /api/chat, lines 455-459: the catch block.
Errored(req) == [req EXCEPT !.pc = "done", !.status = 500, !.scan = <<>>]

\* waitForResponse, line 176: the test at the top of the loop. Either
\* another round begins with its 5 s wait, or the time is up, null is
\* returned and the handler answers 504 (lines 427-431).
LoopTop(req, timeUp) ==
  IF timeUp \/ req.rounds >= MaxRounds
    THEN [req EXCEPT !.pc = "done", !.status = 504, !.timedOut = TRUE,
                     !.scan = <<>>]
    ELSE [req EXCEPT !.pc = "delay", !.rounds = @ + 1, !.scan = <<>>]

\* An exchange saved by an earlier request.
EarlierEntry ==
  [prompt |-> "yo", result |-> <<"answer">>, jobTxid |-> Null,
   resTxid |-> Null]

InitBridge ==
  /\ ledger = <<>> /\ agentJob = [t \in BridgeIds |-> NoWork]
  /\ breq = IdleBridgeReq
  /\ bconv \in {<<>>, <<EarlierEntry>>}
  /\ AgentInit /\ BuilderIdle /\ ChatIdle /\ ContextIdle /\ CodecIdle
  /\ ScanIdle
  /\ SettleIdle
  /\ PollIdle
  /\ StoreIdle
  /\ GatewayIdle
  /\ SubmitIdle
  /\ DecodeIdle

\* /api/chat, lines 409-424: the body is read; an empty prompt is answered
\* with 400; otherwise the conversation is loaded and sendJobTx reads the
\* sender's unspent outputs.
BridgeStart(body) ==
  /\ breq.pc = "idle"
  /\ breq' = IF Trim(body) = ""
               THEN [breq EXCEPT !.pc = "done", !.status = 400]
               ELSE [breq EXCEPT !.pc = "unspent", !.prompt = Trim(body),
                                 !.history = bconv]
  /\ UNCHANGED <<ledger, agentJob, bconv, jobs, notBridgeVars>>

\* sendJobTx, lines 110-166: the listing arrives. Without outputs (or when
\* the read fails) it throws; otherwise the transaction is built and handed
\* to the broadcast.
BridgeUnspent(funded) ==
  /\ breq.pc = "unspent"
  /\ breq' = IF funded THEN [breq EXCEPT !.pc = "broadcast"]
               ELSE Errored(breq)
  /\ UNCHANGED <<ledger, agentJob, bconv, jobs, notBridgeVars>>

\* sendJobTx, line 167, and waitForResponse, lines 173-177: the broadcast
\* answers. Accepted, the job is on the ledger under its id and the first
\* polling round begins; rejected, the handler answers 500.
BridgeBroadcast(accepted) ==
  /\ breq.pc = "broadcast"
  /\ IF accepted
       THEN /\ FreeIds # {}
            /\ ledger' = Append(ledger,
                   JobTx(NextJobId,
                         bridgeBuildContextPrompt(breq.history, breq.prompt)))
            /\ breq' = [breq EXCEPT !.pc = "delay", !.jobTxid = NextJobId,
                                    !.rounds = 1]
       ELSE /\ breq' = Errored(breq)
            /\ UNCHANGED ledger
  /\ UNCHANGED <<agentJob, bconv, jobs, notBridgeVars>>

\* waitForResponse, lines 177-186: the wait is over and the Job Store is
\* read. A record of the job with a settlement id ends the call with its
\* result; otherwise the address history is requested.
BridgeDelayDone ==
  /\ breq.pc = "delay"
  /\ LET result == storeResult(jobs, breq.jobTxid)
         req == [breq EXCEPT !.storeRound = breq.rounds]
     IN IF result # <<>>
          THEN /\ breq' = Answered(req, result)
               /\ bconv' = Append(req.history, NewEntry(breq'))
          ELSE /\ breq' = [req EXCEPT !.pc = "history"]
               /\ UNCHANGED bconv
  /\ UNCHANGED <<ledger, agentJob, jobs, notBridgeVars>>

\* waitForResponse, lines 186-189: the history arrives: a list, whose
\* entries are then visited in order; nothing (404, unparseable), and the
\* round is over; or the read fails and the error leaves waitForResponse.
BridgeHistoryResp(outcome, timeUp) ==
  /\ breq.pc = "history"
  /\ breq' =
       CASE outcome = "error" -> Errored(breq)
         [] outcome = "null" -> LoopTop(breq, timeUp)
         [] OTHER ->
              IF ledger = <<>> THEN LoopTop(breq, timeUp)
              ELSE [breq EXCEPT !.pc = "scan",
                      !.scan = [i \in 1..Len(ledger) |-> ledger[i].txid]]
  /\ UNCHANGED <<ledger, agentJob, bconv, jobs, notBridgeVars>>

\* waitForResponse, lines 189-207: the transaction of the entry arrives. A
\* RES output that refers to the job ends the call with its payload; a
\* failed read or a transaction without one moves on to the next entry, and
\* after the last entry the round is over.
BridgeTxResp(fetched, timeUp) ==
  /\ breq.pc = "scan"
  /\ LET payload == IF fetched
                      THEN matchRes(TxOf(Head(breq.scan)).outputs,
                                    breq.jobTxid)
                      ELSE <<>>
     IN IF payload # <<>>
          THEN /\ breq' = Answered(breq, payload)
               /\ bconv' = Append(breq.history, NewEntry(breq'))
          ELSE /\ breq' = IF Tail(breq.scan) = <<>>
                            THEN LoopTop(breq, timeUp)
                            ELSE [breq EXCEPT !.scan = Tail(@)]
               /\ UNCHANGED bconv
  /\ UNCHANGED <<ledger, agentJob, jobs, notBridgeVars>>

\* send-job, part_001 lines 373-517: another requester's job reaches the
\* ledger.
OtherJob ==
  /\ FreeIds # {}
  /\ ledger' = Append(ledger,
         JobTx(NextJobId, bridgeBuildContextPrompt(<<>>, "hi")))
  /\ UNCHANGED <<agentJob, breq, bconv, jobs, notBridgeVars>>

\* The agent's processJob seen from outside, part_001 lines 262-302: the
\* settlement of job t with the inference result is handed to the
\* broadcast. Accepted, it is in the address history at once; rejected, the
\* failure record is saved.
AgentBroadcast(t, text, accepted) ==
  /\ OnLedger(t) /\ agentJob[t].pc = "none"
  /\ IF accepted
       THEN /\ ledger' = Append(ledger, SettlementTx(t, text))
            /\ agentJob' = [agentJob EXCEPT
                              ![t] = [pc |-> "accepted", result |-> text]]
            /\ UNCHANGED jobs
       ELSE /\ jobs' = saveJob(jobs, FailedRecord(RequestPaid, t, text))
            /\ agentJob' = [agentJob EXCEPT
                              ![t] = [pc |-> "saved", result |-> text]]
            /\ UNCHANGED ledger
  /\ UNCHANGED <<breq, bconv, notBridgeVars>>

\* processJob, lines 272-285: the broadcast has answered with the settlement
\* id and the record is saved.
AgentSave(t) ==
  /\ agentJob[t].pc = "accepted"
  /\ jobs' = saveJob(jobs, SettledRecord(RequestPaid, t, agentJob[t].result))
  /\ agentJob' = [agentJob EXCEPT ![t].pc = "saved"]
  /\ UNCHANGED <<ledger, breq, bconv, notBridgeVars>>

NextBridge ==
  \/ \E body \in Prompts : BridgeStart(body)
  \/ \E funded \in BOOLEAN : BridgeUnspent(funded)
  \/ \E accepted \in BOOLEAN : BridgeBroadcast(accepted)
  \/ BridgeDelayDone
  \/ \E outcome \in {"list", "null", "error"}, timeUp \in BOOLEAN :
        BridgeHistoryResp(outcome, timeUp)
  \/ \E fetched \in BOOLEAN, timeUp \in BOOLEAN :
        BridgeTxResp(fetched, timeUp)
  \/ OtherJob
  \/ \E t \in BridgeIds, text \in Answers, accepted \in BOOLEAN :
        AgentBroadcast(t, text, accepted)
  \/ \E t \in BridgeIds : AgentSave(t)

SpecBridge == InitBridge /\ [][NextBridge]_vars

\* A record of job t with a settlement id and the result, or a RES output
\* in the address history that refers to t and carries it.
StoreMatch(t, result) ==
  \E i \in 1..Len(jobs) :
    jobs[i].jobTxid = t /\ jobs[i].resTxid # Null /\ <<jobs[i].result>> = result
LedgerMatch(t, result) ==
  \E i \in 1..Len(ledger) : \E k \in 1..Len(ledger[i].outputs) :
    LET out == ledger[i].outputs[k]
    IN out.kind = "RES" /\ ReverseBytes(out.ref) = TxidBytes(t)
       /\ out.data = result

(* ---------------------- the JOB data output on its own ----------------- *)
\* Texts are sequences of UTF-16 code units, as JavaScript strings are.
\* The units used: a, e-acute, the euro sign, and the two halves of a
\* surrogate pair.
Units == {97, 233, 8364, 55357, 56832}
JobTag == <<74, 79, 66>>
IsHigh(u) == u \in 55296..56319
IsLow(u) == u \in 56320..57343
\* No surrogate half without its other half.
WellFormed(text) ==
  \A i \in 1..Len(text) :
    /\ IsHigh(text[i]) => i < Len(text) /\ IsLow(text[i + 1])
    /\ IsLow(text[i]) => i > 1 /\ IsHigh(text[i - 1])

\* The pieces f[lo], ..., f[hi] put together.
RECURSIVE Flatten(_, _, _)
Flatten(f, lo, hi) ==
  IF lo > hi THEN <<>>
  ELSE IF lo = hi THEN f[lo]
  ELSE LET mid == (lo + hi) \div 2
       IN Flatten(f, lo, mid) \o Flatten(f, mid + 1, hi)

\* Buffer.from(text, 'utf8'): one to three bytes per unit, four for a
\* surrogate pair (written at its first half), and EF BF BD for a surrogate
\* half on its own.
UnitBytes(text, i) ==
  LET u == text[i]
  IN IF u < 128 THEN <<u>>
     ELSE IF u < 2048 THEN <<192 + (u \div 64), 128 + (u % 64)>>
     ELSE IF IsHigh(u) /\ i < Len(text) /\ IsLow(text[i + 1])
       THEN LET cp == 65536 + (u - 55296) * 1024 + (text[i + 1] - 56320)
            IN <<240 + (cp \div 262144), 128 + ((cp \div 4096) % 64),
                 128 + ((cp \div 64) % 64), 128 + (cp % 64)>>
     ELSE IF IsLow(u) /\ i > 1 /\ IsHigh(text[i - 1]) THEN <<>>
     ELSE IF IsHigh(u) \/ IsLow(u) THEN <<239, 191, 189>>
     ELSE <<224 + (u \div 4096), 128 + ((u \div 64) % 64), 128 + (u % 64)>>
Utf8(text) ==
  Flatten([i \in 1..Len(text) |-> UnitBytes(text, i)], 1, Len(text))

\* buf.toString('utf8') of bytes written by Buffer.from: the units of the
\* character that starts at byte i; a continuation byte belongs to the
\* character started before it.
ByteUnits(bytes, i) ==
  LET b == bytes[i]
  IN IF b < 128 THEN <<b>>
     ELSE IF b < 192 THEN <<>>
     ELSE IF b < 224 /\ i + 1 <= Len(bytes)
       THEN <<(b - 192) * 64 + (bytes[i + 1] - 128)>>
     ELSE IF b \in 224..239 /\ i + 2 <= Len(bytes)
       THEN <<(b - 224) * 4096 + (bytes[i + 1] - 128) * 64
              + (bytes[i + 2] - 128)>>
     ELSE IF b \in 240..247 /\ i + 3 <= Len(bytes)
       THEN LET cp == (b - 240) * 262144 + (bytes[i + 1] - 128) * 4096
                      + (bytes[i + 2] - 128) * 64 + (bytes[i + 3] - 128)
            IN <<55296 + ((cp - 65536) \div 1024),
                 56320 + ((cp - 65536) % 1024)>>
     ELSE <<65533>>
FromUtf8(bytes) ==
  Flatten([i \in 1..Len(bytes) |-> ByteUnits(bytes, i)], 1, Len(bytes))

\* Script.add(buffer) and its serialisation, with one length byte for every
\* push.
ScriptPushShort(buf) == <<Len(buf) % 256>> \o buf

\* Script.add(buffer) and its serialisation: the length itself below 76,
\* OP_PUSHDATA1 (76) with one length byte below 256, OP_PUSHDATA2 (77) with
\* two length bytes, low byte first, after that (OP_PUSHDATA4, for pushes of
\* 65536 bytes and more, is left out here and in Chunks).
ScriptPush(buf) ==
  IF Len(buf) < 76 THEN <<Len(buf)>> \o buf
  ELSE IF Len(buf) < 256 THEN <<76, Len(buf)>> \o buf
  ELSE <<77, Len(buf) % 256, Len(buf) \div 256>> \o buf

\* toString('hex') / Script.fromHex: two hex digits per byte.
ToHex(bytes) ==
  [i \in 1..(2 * Len(bytes)) |->
     IF i % 2 = 1 THEN bytes[(i + 1) \div 2] \div 16
     ELSE bytes[i \div 2] % 16]
FromHex(hex) ==
  [i \in 1..(Len(hex) \div 2) |-> 16 * hex[2 * i - 1] + hex[2 * i]]

\* sendJobTx, part_000 lines 130-136, and send-job, part_001 lines 466-471:
\* OP_FALSE OP_RETURN 'JOB' <prompt>, and how the ledger shows the outputs.
JobScript(prompt) ==
  <<0, 106>> \o ScriptPush(Utf8(JobTag)) \o ScriptPush(Utf8(prompt))
JobVout(prompt) ==
  << [type |-> "nulldata", hex |-> ToHex(JobScript(prompt))],
     [type |-> "pubkeyhash", hex |-> <<>>] >>

\* Script.fromHex: the chunks of a script. A chunk has a buffer when its
\* opcode is a push of data; the opcodes before the first push have none. A
\* push that announces more bytes than are left makes fromHex throw: the
\* chunk Invalid stands for that.
Invalid == [opcodenum |-> 0 - 1, hasBuf |-> FALSE, buf |-> <<>>]
IsPush(op) == op > 0 /\ op < 78
RECURSIVE Chunks(_)
Chunks(b) ==
  LET pushAt == {i \in 1..Len(b) : IsPush(b[i])}
  IN IF pushAt = {}
       THEN [i \in 1..Len(b) |->
               [opcodenum |-> b[i], hasBuf |-> FALSE, buf |-> <<>>]]
       ELSE
         LET p == CHOOSE i \in pushAt : \A j \in pushAt : i <= j
             op == b[p]
             plain == [i \in 1..(p - 1) |->
                         [opcodenum |-> b[i], hasBuf |-> FALSE, buf |-> <<>>]]
             skip == IF op < 76 THEN 0 ELSE IF op = 76 THEN 1 ELSE 2
             len == IF p + skip > Len(b) THEN Len(b) + 1
                    ELSE IF op < 76 THEN op
                    ELSE IF op = 76 THEN b[p + 1]
                    ELSE b[p + 1] + 256 * b[p + 2]
         IN IF p + skip + len > Len(b) THEN plain \o <<Invalid>>
            ELSE plain
                 \o << [opcodenum |-> op, hasBuf |-> TRUE,
                        buf |-> SubSeq(b, p + skip + 1, p + skip + len)] >>
                 \o Chunks(SubSeq(b, p + skip + len + 1, Len(b)))

\* parseJobFromTx, part_001 lines 119-134, on the outputs as the ledger
\* shows them: the second push of the first nulldata output whose first push
\* reads JOB, or null. An output whose script cannot be read is passed over
\* (the catch of line 131).
RECURSIVE parseJobFromVout(_)
parseJobFromVout(vout) ==
  IF vout = <<>> THEN [done |-> TRUE, found |-> FALSE, text |-> <<>>]
  ELSE LET chunks == Chunks(FromHex(Head(vout).hex))
           pushes == SelectSeq(chunks, LAMBDA c : c.hasBuf)
       IN IF /\ Head(vout).type = "nulldata"
             /\ \A i \in 1..Len(chunks) : chunks[i] # Invalid
             /\ Len(pushes) >= 2
             /\ FromUtf8(pushes[1].buf) = JobTag
            THEN [done |-> TRUE, found |-> TRUE,
                  text |-> FromUtf8(pushes[2].buf)]
            ELSE parseJobFromVout(Tail(vout))

\* Prompts that need OP_PUSHDATA1 and OP_PUSHDATA2, and the longest without.
LongLens == {75, 76, 255, 256}
CodecPrompts ==
  (SeqsUpTo(Units, MaxPromptLen) \ {<<>>})
    \cup {JobTag}
    \cup {[i \in 1..n |-> 97] : n \in LongLens}

InitCodec ==
  /\ codecPrompt \in CodecPrompts
  /\ codecVout = <<>> /\ codecOut = NotDecoded
  /\ AgentInit /\ BuilderIdle /\ ChatIdle /\ ContextIdle /\ BridgeIdle
  /\ ScanIdle
  /\ SettleIdle
  /\ PollIdle
  /\ StoreIdle
  /\ GatewayIdle
  /\ SubmitIdle
  /\ DecodeIdle

\* The job transaction is built and reaches the ledger.
EncodeJob ==
  /\ codecVout = <<>>
  /\ codecVout' = JobVout(codecPrompt)
  /\ UNCHANGED <<codecPrompt, codecOut, notCodecVars>>

\* processJob, part_001 line 249: the agent decodes it.
DecodeJob ==
  /\ codecVout # <<>> /\ ~codecOut.done
  /\ codecOut' = parseJobFromVout(codecVout)
  /\ UNCHANGED <<codecPrompt, codecVout, notCodecVars>>

NextCodec == EncodeJob \/ DecodeJob

SpecCodec == InitCodec /\ [][NextCodec]_vars

(* ------------------- the decoders on arbitrary outputs ----------------- *)
\* buildResponseTx, part_001 lines 187-192: OP_FALSE OP_RETURN 'RES'
\* <reversed id> <payload>.
ResTag == <<82, 69, 83>>
ResScript(jobTxid, payload) ==
  <<0, 106>> \o ScriptPush(Utf8(ResTag))
    \o ScriptPush(ReverseBytes(TxidBytes(jobTxid)))
    \o ScriptPush(Utf8(payload))

\* The job the bridge waits for, its prompt and its result ("2+2?", "4").
DecodedJob == 1
SamplePrompt == <<50, 43, 50, 63>>
SampleResult == <<52>>

\* Outputs a transaction in the agent address's history can have: a
\* payment, a data output with a foreign tag, a data output whose push
\* announces more bytes than the script has, a JOB output, the RES output of
\* the job waited for and the RES output of the job with the reversed id.
\* The label is not part of what the ledger shows.
SampleOutputs ==
  { [label |-> "pay", type |-> "pubkeyhash",
     hex |-> ToHex(<<118, 169, 1, 7, 136, 172>>)],
    [label |-> "foreign", type |-> "nulldata",
     hex |-> ToHex(<<0, 106>> \o ScriptPush(<<70, 79, 79>>)
                              \o ScriptPush(<<1, 2>>)
                              \o ScriptPush(SampleResult))],
    [label |-> "bad", type |-> "nulldata",
     hex |-> ToHex(<<0, 106, 5, 97>>)],
    [label |-> "job", type |-> "nulldata",
     hex |-> ToHex(JobScript(SamplePrompt))],
    [label |-> "res", type |-> "nulldata",
     hex |-> ToHex(ResScript(DecodedJob, SampleResult))],
    [label |-> "resOther", type |-> "nulldata",
     hex |-> ToHex(ResScript(Partner(DecodedJob), SampleResult))] }

\* waitForResponse, part_000 lines 193-208, on the outputs of one
\* transaction: the third push of the first nulldata output with at least
\* three pushes whose first reads RES and whose second, reversed, is the job
\* id. The try of line 191 is around the whole loop: a script that cannot
\* be read ends the scan of the transaction.
RECURSIVE matchResFromVout(_, _)
matchResFromVout(vout, jobTxid) ==
  IF vout = <<>> THEN [done |-> TRUE, found |-> FALSE, text |-> <<>>]
  ELSE IF Head(vout).type # "nulldata"
    THEN matchResFromVout(Tail(vout), jobTxid)
  ELSE LET chunks == Chunks(FromHex(Head(vout).hex))
           pushes == SelectSeq(chunks, LAMBDA c : c.hasBuf)
       IN IF \E i \in 1..Len(chunks) : chunks[i] = Invalid
            THEN [done |-> TRUE, found |-> FALSE, text |-> <<>>]
          ELSE IF /\ Len(pushes) >= 3
                  /\ FromUtf8(pushes[1].buf) = ResTag
                  /\ RefMatches(pushes[2].buf, jobTxid)
            THEN [done |-> TRUE, found |-> TRUE,
                  text |-> FromUtf8(pushes[3].buf)]
          ELSE matchResFromVout(Tail(vout), jobTxid)

InitDecode ==
  /\ decVout \in SeqsUpTo(SampleOutputs, MaxVouts)
  /\ decJob = NotDecoded /\ decRes = NotDecoded
  /\ AgentInit /\ BuilderIdle /\ ChatIdle /\ ContextIdle /\ BridgeIdle
  /\ ScanIdle
  /\ SettleIdle
  /\ PollIdle
  /\ StoreIdle
  /\ GatewayIdle
  /\ SubmitIdle
  /\ CodecIdle

\* processJob, part_001 line 249: the agent looks for a JOB output.
DecodeForJob ==
  /\ ~decJob.done
  /\ decJob' = parseJobFromVout(decVout)
  /\ UNCHANGED <<decVout, decRes, notDecodeVars>>

\* waitForResponse, part_000 lines 192-208: the bridge looks for the RES
\* output of its job.
DecodeForRes ==
  /\ ~decRes.done
  /\ decRes' = matchResFromVout(decVout, DecodedJob)
  /\ UNCHANGED <<decVout, decJob, notDecodeVars>>

NextDecode == DecodeForJob \/ DecodeForRes

SpecDecode == InitDecode /\ [][NextDecode]_vars

\* The outputs carry an output with this label.
HasOutput(vout, label) == \E i \in 1..Len(vout) : vout[i].label = label

(* ------------------------ job submission on its own ------------------- *)
\* The loop of sendJobTx (part_000 116-128) and send-job (part_001 451-463)
\* without its break: every listed output is an input.
accumulateAll(utxos, need, totalIn) == utxos

\* The loop of sendJobTx (part_000 116-128) and send-job (part_001 451-463):
\* each listed output is added as an input, in listing order, and the loop
\* is left once the total has reached the amount needed.
RECURSIVE accumulate(_, _, _)
accumulate(utxos, need, totalIn) ==
  IF utxos = <<>> THEN <<>>
  ELSE LET u == Head(utxos) IN
       IF totalIn + u.value >= need THEN <<u>>
       ELSE <<u>> \o accumulate(Tail(utxos), need, totalIn + u.value)

\* sendJobTx, part_000 lines 110-167, and send-job, part_001 lines 445-505,
\* for a payment of sats: nothing is built for an empty listing; otherwise
\* the JOB output, the payment and, when positive, the change.
sendJobTx(utxos, sats) ==
  IF utxos = <<>> THEN [status |-> "refused", inputs |-> <<>>, outputs |-> <<>>]
  ELSE LET sel == accumulate(utxos, sats + SubmitMargin, 0)
           change == SumValues(sel) - sats - SubmitFee
       IN [status |-> "sent", inputs |-> sel,
           outputs |->
             << [kind |-> "JOB", satoshis |-> 0],
                [kind |-> "payment", satoshis |-> sats] >>
             \o (IF change > 0
                   THEN << [kind |-> "change", satoshis |-> change] >>
                   ELSE <<>>)]

PaymentOf(sender) == IF sender = "bridge" THEN SATS_PER_JOB ELSE SendJobSats

\* Amounts of listed outputs, below and above both amounts needed.
ListedAmounts == {1000, 3000, 4000, 6000}
ListingOf(amounts) ==
  [i \in 1..Len(amounts) |-> [tx_hash |-> i, tx_pos |-> 0, value |-> amounts[i]]]
SenderListings == {ListingOf(a) : a \in SeqsUpTo(ListedAmounts, MaxListing)}

InitSubmit ==
  /\ subListing \in SenderListings
  /\ subSender \in {"bridge", "send-job"}
  /\ subTx = NotSubmitted
  /\ AgentInit /\ BuilderIdle /\ ChatIdle /\ ContextIdle /\ BridgeIdle
  /\ ScanIdle
  /\ SettleIdle
  /\ PollIdle
  /\ StoreIdle
  /\ GatewayIdle
  /\ CodecIdle /\ DecodeIdle

\* The listing has arrived; the transaction is built and handed to the
\* broadcast, or the sender gives up for want of outputs.
Submit ==
  /\ subTx = NotSubmitted
  /\ subTx' = sendJobTx(subListing, PaymentOf(subSender))
  /\ UNCHANGED <<subListing, subSender, notSubmitVars>>

NextSubmit == Submit

SpecSubmit == InitSubmit /\ [][NextSubmit]_vars

\* The lengths of the prefixes of a listing whose total reaches the amount.
SufficientPrefixes(utxos, need) ==
  {k \in 1..Len(utxos) : SumValues(SubSeq(utxos, 1, k)) >= need}

(* ------------------------- the ledger gateway -------------------------- *)
\* Response bodies: a JSON array, a JSON object (an error report of the
\* service, or a transaction), a quoted id, text that is not JSON, nothing.
Bodies == {"[]", "{}", "\"ab12\"", "<html>", ""}
Statuses == {200, 204, 302, 400, 404, 429, 500, 503}

\* JSON.parse: the value, or a SyntaxError.
JsonParse(d) ==
  CASE d = "[]" -> [threw |-> FALSE, value |-> "array"]
    [] d = "{}" -> [threw |-> FALSE, value |-> "object"]
    [] d = "\"ab12\"" -> [threw |-> FALSE, value |-> "string"]
    [] OTHER -> [threw |-> TRUE, value |-> ""]

\* d.replace(/"/g, '').trim()
Unquoted(d) == IF d = "\"ab12\"" THEN "ab12" ELSE d

Rejected == [kind |-> "rejected", value |-> ""]
Resolved(v) == [kind |-> "resolved", value |-> v]
\* JavaScript's null as a resolved value.
NullValue == "null"

\* httpGet of the agent, the bridge, the chat front-end and send-job: a
\* network error rejects; 404 resolves null; every other response resolves
\* to its parsed body, or to null when the body is not JSON.
httpGet(resp) ==
  IF resp.netError THEN Rejected
  ELSE IF resp.status = 404 THEN Resolved(NullValue)
  ELSE LET parsed == JsonParse(resp.body) IN
       IF parsed.threw THEN Resolved(NullValue) ELSE Resolved(parsed.value)

\* httpGet of the viewer, viewer.cjs lines 27-38: no status is looked at.
viewerHttpGet(resp) ==
  IF resp.netError THEN Rejected
  ELSE LET parsed == JsonParse(resp.body) IN
       IF parsed.threw THEN Resolved(NullValue) ELSE Resolved(parsed.value)

\* wocBroadcast: rejects on a network error and on a status of 400 or more;
\* otherwise resolves to the body without quotes.
wocBroadcast(resp) ==
  IF resp.netError THEN Rejected
  ELSE IF resp.status >= 400 THEN Rejected
  ELSE Resolved(Unquoted(resp.body))

ReadCalls == {"httpGet", "viewerHttpGet"}
GatewayCalls == ReadCalls \cup {"wocBroadcast"}
Responses ==
  {[fn |-> f, netError |-> FALSE, status |-> st, body |-> d] :
     f \in GatewayCalls, st \in Statuses, d \in Bodies}
  \cup {[fn |-> f, netError |-> TRUE, status |-> 0, body |-> ""] :
           f \in GatewayCalls}

InitGateway ==
  /\ gwCall \in Responses
  /\ gwOut = Unsettled
  /\ AgentInit /\ BuilderIdle /\ ChatIdle /\ ContextIdle /\ BridgeIdle
  /\ ScanIdle
  /\ SettleIdle
  /\ PollIdle
  /\ StoreIdle
  /\ CodecIdle /\ DecodeIdle /\ SubmitIdle

\* The response (or the network error) arrives and the promise settles.
Settle ==
  /\ gwOut = Unsettled
  /\ gwOut' = CASE gwCall.fn = "httpGet" -> httpGet(gwCall)
                 [] gwCall.fn = "viewerHttpGet" -> viewerHttpGet(gwCall)
                 [] OTHER -> wocBroadcast(gwCall)
  /\ UNCHANGED <<gwCall, notGatewayVars>>

NextGateway == Settle

SpecGateway == InitGateway /\ [][NextGateway]_vars

\* The response has a status outside 200..299.
NonSuccess(resp) == ~resp.netError /\ (resp.status < 200 \/ resp.status > 299)

(* ------------------- processJob and a failing disk --------------------- *)
\* processJob, lines 270-303, from the answer of wocBroadcast on. The save
\* of the success record is inside the try block, so an error it throws is
\* caught by the same catch as a rejected broadcast, which saves the failure
\* record; an error thrown by that save leaves processJob.
processJobTail(js, tx, t, result, env) ==
  LET caught ==
        IF env.secondWrite
          THEN [jobs |-> saveJob(js, FailedRecord(tx, t, result)),
                out |-> "returned"]
          ELSE [jobs |-> js, out |-> "threw"]
  IN IF env.accepted
       THEN IF env.firstWrite
              THEN [jobs |-> saveJob(js, SettledRecord(tx, t, result)),
                    out |-> "returned"]
              ELSE caught
       ELSE caught

\* The request handled is request 1; the store may hold an earlier job.
StoreJob == 1
EarlierJob == [jobTxid |-> 2, resTxid |-> ResTxidOf(2), prompt |-> 2,
               result |-> "answer", satsReceived |-> 5000, satsKept |-> 4700,
               isHashed |-> FALSE, error |-> FALSE]

InitStore ==
  /\ stUtxos \in BuilderInputs
  /\ stResult \in BuilderTexts
  /\ stBefore \in {<<>>, <<EarlierJob>>}
  /\ stEnv = NoEnv /\ stAfter = stBefore /\ stOut = "running"
  /\ AgentInit /\ BuilderIdle /\ ChatIdle /\ ContextIdle /\ BridgeIdle
  /\ ScanIdle
  /\ SettleIdle
  /\ PollIdle
  /\ CodecIdle /\ DecodeIdle /\ SubmitIdle /\ GatewayIdle

\* wocBroadcast settles and processJob runs to its end.
FinishJob(env) ==
  /\ stOut = "running"
  /\ LET r == processJobTail(stBefore, RequestOf(stUtxos), StoreJob,
                             stResult, env)
     IN stAfter' = r.jobs /\ stOut' = r.out
  /\ stEnv' = env
  /\ UNCHANGED <<stUtxos, stResult, stBefore, notStoreVars>>

NextStore ==
  \E a \in BOOLEAN, w1 \in BOOLEAN, w2 \in BOOLEAN :
     FinishJob([accepted |-> a, firstWrite |-> w1, secondWrite |-> w2])

SpecStore == InitStore /\ [][NextStore]_vars

(* ------------------ poll ticks and failing reads ----------------------- *)
\* The ids the ledger can list for the agent's address.
PollIds == 1..NumJobs

\* The answers of the history read: the call rejected (network error),
\* null (404, or a body that is not JSON), a JSON value that is not an array
\* (an error report), or the listing.
HistoryAnswers ==
  {[kind |-> k, list |-> <<>>] : k \in {"rejected", "null", "object"}}
  \cup {[kind |-> "list", list |-> h] : h \in SeqsUpTo(PollIds, MaxHist)}

\* pollForJobs after a failed read with the seen-set emptied.
afterHistoryForgetful(answer, seen, js) ==
  IF answer.kind # "list"
    THEN [seen |-> {}, hist |-> <<>>, txid |-> Null, again |-> {}]
    ELSE LoopFrom(answer.list, seen, js)

\* pollForJobs, lines 308-326, from the answer of the history read to the
\* first await of the loop or the end of the tick: a rejected call is caught
\* and logged (324-326), anything but an array returns (311).
afterHistory(answer, seen, js) ==
  IF answer.kind # "list"
    THEN [seen |-> seen, hist |-> <<>>, txid |-> Null, again |-> {}]
    ELSE LoopFrom(answer.list, seen, js)

\* The execution after a run of the loop.
TickAfter(r) ==
  IF r.txid = Null THEN IdleTick
  ELSE [pc |-> "job", hist |-> r.hist, txid |-> r.txid]

\* The record processJob saves for id t (its other fields play no part).
PollRecord(t) == [jobTxid |-> t]

InitPoll ==
  /\ pollSeen \in SUBSET PollIds
  /\ pollJobs = <<>> /\ pollTick = IdleTick /\ pollCount = 0
  /\ pollLast = NoRead /\ pollCalls = {}
  /\ AgentInit /\ BuilderIdle /\ ChatIdle /\ ContextIdle /\ BridgeIdle
  /\ ScanIdle
  /\ SettleIdle
  /\ CodecIdle /\ DecodeIdle /\ SubmitIdle /\ GatewayIdle /\ StoreIdle

\* setInterval fires after the previous tick has ended.
PollFire ==
  /\ pollTick = IdleTick /\ pollCount < MaxPolls
  /\ pollTick' = [IdleTick EXCEPT !.pc = "history"]
  /\ pollCount' = pollCount + 1
  /\ UNCHANGED <<pollSeen, pollJobs, pollLast, pollCalls, notPollVars>>

\* The history read is answered.
PollHistory(answer) ==
  /\ pollTick.pc = "history"
  /\ LET r == afterHistory(answer, pollSeen, pollJobs) IN
       /\ pollSeen' = r.seen
       /\ pollTick' = TickAfter(r)
       /\ pollCalls' = IF r.txid = Null THEN pollCalls
                                        ELSE pollCalls \cup {r.txid}
  /\ pollLast' = [kind |-> answer.kind, prev |-> pollLast.kind,
                  list |-> answer.list, seen |-> pollSeen, jobs |-> pollJobs]
  /\ UNCHANGED <<pollJobs, pollCount, notPollVars>>

\* processJob ends: it saved a record, returned without one (no JOB, nothing
\* paid), or threw (transaction read rejected), which ends the tick.
PollJobDone(outcome) ==
  /\ pollTick.pc = "job"
  /\ pollJobs' = IF outcome = "saved"
                   THEN saveJob(pollJobs, PollRecord(pollTick.txid))
                   ELSE pollJobs
  /\ IF outcome = "threw"
       THEN /\ pollTick' = IdleTick
            /\ UNCHANGED <<pollSeen, pollCalls>>
       ELSE LET r == LoopFrom(pollTick.hist, pollSeen, pollJobs') IN
            /\ pollSeen' = r.seen
            /\ pollTick' = TickAfter(r)
            /\ pollCalls' = IF r.txid = Null THEN pollCalls
                                             ELSE pollCalls \cup {r.txid}
  /\ UNCHANGED <<pollCount, pollLast, notPollVars>>

NextPoll ==
  \/ PollFire
  \/ \E answer \in HistoryAnswers : PollHistory(answer)
  \/ \E outcome \in {"saved", "discarded", "threw"} : PollJobDone(outcome)

SpecPoll == InitPoll /\ [][NextPoll]_vars

\* In this step a history read is answered; the answer is not a listing.
ReadAnswered == pollTick.pc = "history" /\ pollTick'.pc # "history"
ReadFailed == ReadAnswered /\ pollLast'.kind # "list"

(* ------------- from the request's outputs to the settlement ----------- *)
\* Addresses: the agent's and a stranger's.
Agent == "agent"
Stranger == "stranger"

\* Outputs a request can have, before their index n is set: payments to the
\* agent, a payment to someone else (the sender's change), a data output
\* (no addresses), and an output naming both addresses. value is in units of
\* 1e-8 coin; the ledger reports it as a decimal with 8 places and line 144
\* turns it back with Math.round(value * 1e8), exact for any amount below
\* 2^53 / 2 units.
OutputKinds ==
  { [value |-> 3000, addresses |-> {Agent}],
    [value |-> 1000, addresses |-> {Agent}],
    [value |-> 2000, addresses |-> {Stranger}],
    [value |-> 0,    addresses |-> {}],
    [value |-> 700,  addresses |-> {Agent, Stranger}] }

Numbered(outs) ==
  [i \in 1..Len(outs) |->
     [n |-> i - 1, value |-> outs[i].value, addresses |-> outs[i].addresses]]

Requests ==
  {[txid |-> 1, vout |-> Numbered(o)] : o \in SeqsUpTo(OutputKinds, MaxVouts)}

\* findOurOutputs that stops at the first output paying the address.
RECURSIVE findOurOutputsFirst(_, _)
findOurOutputsFirst(tx, address) ==
  IF tx.vout = <<>> THEN <<>>
  ELSE LET v == Head(tx.vout) IN
       IF address \in v.addresses
         THEN << [txid |-> tx.txid, vout |-> v.n, satoshis |-> v.value] >>
         ELSE findOurOutputsFirst([tx EXCEPT !.vout = Tail(tx.vout)], address)

\* findOurOutputs, lines 137-150, on the outputs themselves: one utxo, in
\* order, for every output whose addresses include the given one.
RECURSIVE findOurOutputsByAddress(_, _)
findOurOutputsByAddress(tx, address) ==
  IF tx.vout = <<>> THEN <<>>
  ELSE LET v == Head(tx.vout)
           rest == findOurOutputsByAddress([tx EXCEPT !.vout = Tail(tx.vout)],
                                           address)
       IN IF address \in v.addresses
            THEN << [txid |-> tx.txid, vout |-> v.n, satoshis |-> v.value] >>
                 \o rest
            ELSE rest

InitSettle ==
  /\ setTx \in Requests
  /\ setBuilt = NotBuilt /\ setRecord = NoRecord
  /\ AgentInit /\ BuilderIdle /\ ChatIdle /\ ContextIdle /\ BridgeIdle
  /\ ScanIdle
  /\ CodecIdle /\ DecodeIdle /\ SubmitIdle /\ GatewayIdle /\ StoreIdle
  /\ PollIdle

\* processJob, lines 252-266: the outputs to the agent are collected; with
\* none the job is skipped, otherwise the settlement is built from them.
SettleBuild ==
  /\ setBuilt = NotBuilt
  /\ findOurOutputsByAddress(setTx, Agent) # <<>>
  /\ setBuilt' = buildResponseTx(findOurOutputsByAddress(setTx, Agent),
                                 setTx.txid, "answer")
  /\ UNCHANGED <<setTx, setRecord, notSettleVars>>

\* processJob, lines 255 and 271-285: the broadcast is accepted and the
\* record saved.
SettleSave ==
  /\ setBuilt # NotBuilt /\ setRecord = NoRecord
  /\ setRecord' = SettledRecord(
                    RequestOf(findOurOutputsByAddress(setTx, Agent)),
                    setTx.txid, "answer")
  /\ UNCHANGED <<setTx, setBuilt, notSettleVars>>

NextSettle == SettleBuild \/ SettleSave

SpecSettle == InitSettle /\ [][NextSettle]_vars

\* The outputs of the request that pay the agent, by index.
PayingAgent(tx) == {i \in 1..Len(tx.vout) : Agent \in tx.vout[i].addresses}
RECURSIVE SumValuesAt(_, _)
SumValuesAt(vout, S) ==
  IF S = {} THEN 0
  ELSE LET i == CHOOSE j \in S : TRUE
       IN vout[i].value + SumValuesAt(vout, S \ {i})

(* ------------- the ledger scan and transactions of others -------------- *)
\* The job the bridge waits for.
ScanJob == 1

\* Made by party `by` (the owner of the outputs it spends).
MadeBy(by, tx) == [txid |-> tx.txid, by |-> by, outputs |-> tx.outputs]

\* A transaction of a stranger that pays the agent's address, so that it is
\* listed in its history, and carries RES <reversed job id> <text>.
ForgedTx(t) ==
  [txid |-> ResTxidOf(t) + NumJobs,
   outputs |-> << [kind |-> "RES", ref |-> ReverseBytes(TxidBytes(t)),
                   data |-> <<"forged">>, satoshis |-> 0],
                  [kind |-> "P2PKH", ref |-> <<>>, data |-> <<>>,
                   satoshis |-> DustLimit] >>]

\* What the history of the agent's address can list: the request, the
\* agent's settlement of it, the agent's settlement of another job, and the
\* stranger's transaction.
ScanTxs ==
  { MadeBy("requester", JobTx(ScanJob, bridgeBuildContextPrompt(<<>>, "hi"))),
    MadeBy("agent", SettlementTx(ScanJob, "answer")),
    MadeBy("agent", SettlementTx(ScanJob + 1, "answer")),
    MadeBy("stranger", ForgedTx(ScanJob)) }

InitScan ==
  /\ scanRest \in SeqsUpTo(ScanTxs, MaxScan)
  /\ scanOut = NotScanned
  /\ AgentInit /\ BuilderIdle /\ ChatIdle /\ ContextIdle /\ BridgeIdle
  /\ CodecIdle /\ DecodeIdle /\ SubmitIdle /\ GatewayIdle /\ StoreIdle
  /\ PollIdle /\ SettleIdle

\* waitForResponse, lines 189-207: the transaction of the next entry
\* arrives (or its read fails); a RES output that refers to the job ends
\* the scan with its payload, whatever the transaction spends.
ScanEntry(fetched) ==
  /\ ~scanOut.done /\ scanRest # <<>>
  /\ LET tx == Head(scanRest)
         payload == IF fetched THEN matchRes(tx.outputs, ScanJob) ELSE <<>>
     IN IF payload # <<>>
          THEN /\ scanOut' = [done |-> TRUE, text |-> payload, by |-> tx.by]
               /\ UNCHANGED scanRest
          ELSE /\ scanRest' = Tail(scanRest)
               /\ UNCHANGED scanOut
  /\ UNCHANGED notScanVars

NextScan == \E fetched \in BOOLEAN : ScanEntry(fetched)

SpecScan == InitScan /\ [][NextScan]_vars

(* ------------------------- derived state ------------------------------- *)
\* The executions (with multiplicity) that have handed id t to processJob
\* and not yet returned from it.
Handling(t) == {e \in Execs : e.txid = t}
\* At most one of them (copies of an execution record counted).
HandledOnce(t) ==
  \A e, f \in Handling(t) : e = f /\ CopiesIn(e, ticks) = 1
InFlight(t) == Handling(t) # {}
Entries(t) == {i \in 1..Len(jobs) : jobs[i].jobTxid = t}
Recorded(t) == Entries(t) # {}
\* A request the processor does not discard: JOB tag and funds to the agent.
ValidJob(t) ==
  /\ parseJobFromTx(detail[t], t) # Null
  /\ findOurOutputs(detail[t], t) # <<>>

\* Id t has at most one entry, at most one execution handling it, and none
\* once it has its entry.
AtMostOnce(t) ==
  /\ Cardinality(Entries(t)) <= 1
  /\ HandledOnce(t)
  /\ Recorded(t) => ~InFlight(t)
\* In this step execution e returns from the broadcast await of processJob
\* (the process is not stopped).
Processed(e) == e.pc = "broadcast" /\ phase' = "up" /\ ~BagIn(e, ticks')
\* In this step the ledger takes the settlement of request t.
Accepted(t) == t \notin spentReq /\ t \in spentReq'

\* The outputs of a built transaction.
RECURSIVE SumOutputs(_)
SumOutputs(outs) ==
  IF outs = <<>> THEN 0 ELSE Head(outs).satoshis + SumOutputs(Tail(outs))
ChangeOutputs(outs) == {i \in 1..Len(outs) : outs[i].kind = "P2PKH"}

\* Steps of the /api/chat handler of request r: its pending entry is saved
\* and inference starts; it ends in the catch block after that; it ends with
\* its final entry saved.
Starting(r) == reqs[r].pc = "idle" /\ reqs'[r].pc = "llm"
Failing(r) ==
  /\ reqs[r].pc \in {"llm", "unspent", "broadcast"}
  /\ reqs'[r].pc = "done" /\ reqs'[r].status = 500
Succeeding(r) == reqs[r].pc = "broadcast" /\ reqs'[r].status = 200
PendingIn(h) == {i \in 1..Len(h) : h[i].pending}

(* ------------------------------ claims --------------------------------- *)

C2_FailedOnce ==
  [][ /\ \A e \in Execs :
           (Processed(e) /\ ~Accepted(e.txid)) =>
              /\ Len(jobs') = Len(jobs) + 1
              /\ SubSeq(jobs', 1, Len(jobs)) = jobs
              /\ jobs'[Len(jobs')].jobTxid = e.txid
              /\ jobs'[Len(jobs')].error
              /\ jobs'[Len(jobs')].resTxid = Null
      /\ \A i \in 1..Len(jobs) :
           jobs[i].error => ~InFlight(jobs[i].jobTxid)' ]_vars

\* A failed record whose id the poll loop met again and passed over.
C2_Witness ==
  \E i \in 1..Len(jobs) :
     jobs[i].error /\ jobs[i].resTxid = Null /\ jobs[i].jobTxid \in skipped

\* C3. The poller never overlaps with itself: at no time are two pollForJobs
\* executions in progress.
C3_NoOverlap == BagCardinality(ticks) <= 1

\* C4. After a (re)start an id in the Job Store is not reprocessed, and
\* every address-history entry without a Job Store record is re-evaluated
\* by the job processor: so no paid JOB transaction without a record may
\* sit in the seen-set from startup on, where no tick ever looks at it.
C4_Reevaluated ==
  phase = "up" => \A t \in seeded : ValidJob(t) => Recorded(t)

\* C5. Every id the poller observes reaches exactly one terminal outcome:
\* once processJob has returned for an id it was handed, the id is Settled
\* or Failed (it has a record) or Discarded (no JOB tag, or no output paying
\* the agent).
C5_Terminal ==
  \A t \in lastSeenTxids \ seeded :
     InFlight(t) \/ Recorded(t) \/ ~ValidJob(t)

\* C6. Every persisted record is in exactly one of the two terminal shapes:
\* resTxid non-null and no error, or resTxid null and error.
C6_RecordShape ==
  \A i \in 1..Len(jobs) :
     \/ jobs[i].resTxid # Null /\ ~jobs[i].error
     \/ jobs[i].resTxid = Null /\ jobs[i].error

\* A failed record in the Job Store.
C6_Witness ==
  \E i \in 1..Len(jobs) : jobs[i].resTxid = Null /\ jobs[i].error

\* C7. In every persisted record satsReceived and satsKept are non-negative,
\* also for requests paying less than the flat fee.
C7_NonNegative ==
  \A i \in 1..Len(jobs) : jobs[i].satsReceived >= 0 /\ jobs[i].satsKept >= 0

\* C8. Fee conservation in the settlement builder: a change output of
\* exactly totalIn - FEE exists iff totalIn - FEE > 0; with it the outputs
\* plus FEE equal totalIn, without it the outputs are at most totalIn; no
\* output is negative and the outputs never exceed totalIn.
C8_FeeConservation ==
  builderOut # NotBuilt =>
    LET totalIn == SumSats(inputs)
        outs == builderOut.tx.outputs
        changes == ChangeOutputs(outs)
    IN /\ (changes # {}) <=> (totalIn - FEE > 0)
       /\ Cardinality(changes) <= 1
       /\ \A i \in changes : outs[i].satoshis = totalIn - FEE
       /\ changes # {} => SumOutputs(outs) + FEE = totalIn
       /\ changes = {} => SumOutputs(outs) <= totalIn
       /\ \A i \in 1..Len(outs) : outs[i].satoshis >= 0
       /\ SumOutputs(outs) <= totalIn

\* The builder applied to inputs one satoshi above the fee.
C8_Witness ==
  /\ builderOut # NotBuilt /\ SumSats(inputs) = FEE + 1
  /\ ChangeOutputs(builderOut.tx.outputs) # {}

\* C9. A spendable output is consumed exactly once: no transaction built by
\* the system selects an output that an earlier transaction handed to the
\* broadcast already referenced, two concurrent chat requests included.
C9_SpentOnce == reselected = {}

\* C10. Backend failure does not abort a job: after a failed inference call
\* the job's result is the text "Error: ...", and the job is either waiting
\* for its settlement broadcast or has its Job Store record.
C10_BackendFailure ==
  \A t \in llmFailed :
     \/ \E e \in Handling(t) : e.pc = "broadcast" /\ e.result = ErrorText
     \/ \E i \in Entries(t) : jobs[i].result = ErrorText

\* A settled record whose result is the error text.
C10_Witness ==
  \E t \in llmFailed : \E i \in Entries(t) :
     jobs[i].result = ErrorText /\ jobs[i].resTxid # Null

\* C11. The inference call is bounded by a timer, and when the timer expires
\* processing goes on as if the call had returned an error string: every
\* request whose handler has finished after its pending entry was saved has
\* a result text, with which the on-chain posting was attempted.
C11_TimeoutProceeds ==
  \A r \in ChatReqs :
     (reqs[r].pc = "done" /\ reqs[r].prompt # "") => reqs[r].result # ""

\* C12. A request transaction without a JOB data output, or with one but
\* without an output paying the agent, is discarded: no execution handling
\* it gets to the inference call or to the broadcast, none of its outputs is
\* spent, and it gets no Job Store record.
C12_Discarded ==
  \A t \in TxIds :
     (~detail[t].job \/ detail[t].outs = <<>>) =>
        /\ \A e \in Handling(t) : e.pc \in {"delay", "fetchTx"}
        /\ t \notin llmFailed
        /\ t \notin spentReq
        /\ ~Recorded(t)

\* A listed transaction with a JOB tag and no payment, handed to processJob
\* by a tick of this process, and processJob has returned.
C12_Witness ==
  \E t \in chain :
     /\ detail[t].job /\ detail[t].outs = <<>>
     /\ t \in lastSeenTxids \ seeded /\ ~InFlight(t)

\* C13. At most one entry of the requester's conversation is pending, also
\* while two requests of the requester are handled at once.
C13_OnePending == Cardinality(PendingIn(conv)) <= 1

\* C14. Pending-state cleanup: when an attempt fails after its pending entry
\* was saved, that entry is removed from the persisted conversation and no
\* other entry is added, removed or changed.
C14_Cleanup ==
  [][ \A r \in ChatReqs :
        Failing(r) => conv' = SelectSeq(conv, LAMBDA x : x.timestamp # r) ]_vars

\* C15. Entry lifecycle: the entry is appended with pending set before
\* inference starts; a successful attempt leaves the conversation with the
\* final record (result, transaction id, no pending flag) at the index and
\* with the prompt of that entry, the entries before it as they were loaded,
\* and its length one more than before the attempt.
C15_Lifecycle ==
  [][ \A r \in ChatReqs :
        /\ Starting(r) =>
              /\ conv' = Append(conv, conv'[Len(conv')])
              /\ conv'[Len(conv')].pending
              /\ conv'[Len(conv')].prompt = reqs'[r].prompt
              /\ reqs'[r].history = conv'
        /\ Succeeding(r) =>
              LET h == reqs[r].history
                  k == Len(h)
              IN /\ h[k].pending
                 /\ Len(conv') = k
                 /\ SubSeq(conv', 1, k - 1) = SubSeq(h, 1, k - 1)
                 /\ conv'[k].prompt = h[k].prompt
                 /\ conv'[k].result = reqs[r].result /\ conv'[k].result # ""
                 /\ conv'[k].txid = ChatTxid(r)
                 /\ ~conv'[k].pending
                 /\ conv = h => \A i \in 1..(k - 1) : conv'[i] = conv[i] ]_vars

\* A request that succeeded after an earlier one had: its final entry is the
\* second of the conversation.
C15_Witness ==
  \E r \in ChatReqs :
     /\ reqs[r].status = 200 /\ Len(conv) = 2
     /\ conv[2].timestamp = r /\ ~conv[2].pending /\ ~conv[1].pending

\* C16. Context windowing: the context built for a new prompt holds exactly
\* the min(N, length) most recent exchanges of the history, in their order,
\* followed by the new prompt; for an empty history it is the new prompt
\* alone. N is the front-end's CONTEXT_LIMIT.
C16_ContextWindow ==
  ctxOut # <<>> =>
    LET len == Len(ctxHistory)
        N == LimitOf(ctxFrontEnd)
        n == IF len <= N THEN len ELSE N
    IN IF len = 0
         THEN ctxOut = << [speaker |-> "", text |-> ctxPrompt] >>
         ELSE /\ Len(ctxOut) = 2 * n + 2
              /\ ctxOut[1].text = "Previous conversation:"
              /\ \A i \in 1..n :
                    /\ ctxOut[2 * i] =
                         [speaker |-> "User",
                          text |-> ctxHistory[len - n + i].prompt]
                    /\ ctxOut[2 * i + 1] =
                         [speaker |-> "Assistant",
                          text |-> ctxHistory[len - n + i].result]
              /\ ctxOut[2 * n + 2] = [speaker |-> "User", text |-> ctxPrompt]

\* The context built by web.cjs from a history longer than its limit whose
\* oldest entry differs from the oldest one inside the window.
C16_Witness ==
  /\ ctxOut # <<>> /\ ctxFrontEnd = "web"
  /\ Len(ctxHistory) > CONTEXT_LIMIT
  /\ ctxHistory[1] # ctxHistory[Len(ctxHistory) - CONTEXT_LIMIT + 1]

\* C18. Oversized result: for a result longer than 50 000 bytes the RES data
\* output carries "HASH:" followed by exactly 64 hex characters, the digest
\* of the result, instead of the result, and the record written for it is
\* flagged isHashed with a result field that differs from the on-chain
\* payload; a result of at most 50 000 bytes is on-chain unchanged and its
\* record is not flagged.
C18_Oversized ==
  builderOut # NotBuilt =>
    LET payload == builderOut.tx.outputs[1].data
        large == ByteLen(resultIn) > 50000
    IN /\ builderOut.tx.outputs[1].kind = "RES"
       /\ large =>
            /\ Len(payload) = 1 + 64 /\ payload[1] = "HASH:"
            /\ \A i \in 2..Len(payload) : payload[i] \in Range(HexDigits)
            /\ SubSeq(payload, 2, Len(payload)) = Sha256Hex(resultIn)
            /\ builderOut.isHashed
            /\ recordOut # NoRecord =>
                  recordOut.isHashed /\ <<recordOut.result>> # payload
       /\ ~large =>
            /\ payload = <<resultIn>> /\ ~builderOut.isHashed
            /\ recordOut # NoRecord => ~recordOut.isHashed

\* The record saved for a result one byte above the ceiling.
C18_Witness ==
  /\ recordOut # NoRecord /\ ByteLen(resultIn) = 50001
  /\ builderOut.isHashed

\* C19. When the result is replaced on-chain by the hash placeholder, the
\* record saved for the job holds the full result text returned by
\* inference.
C19_FullTextKept ==
  (recordOut # NoRecord /\ builderOut.isHashed) => recordOut.result = resultIn

\* C17. Bridge correlation: after submitting job J, waitForResponse returns
\* a result only if it found a Job Store record with jobTxid = J and a
\* non-null resTxid, or a RES output in the agent address's history whose
\* back-reference, reversed again, is J; in each round the store is read
\* before the ledger; when the time is up without either, null is returned,
\* the caller gets 504 and the conversation is as it was.
C17_Correlation ==
  /\ breq.result # <<>> =>
       /\ breq.status = 200
       /\ StoreMatch(breq.jobTxid, breq.result)
          \/ LedgerMatch(breq.jobTxid, breq.result)
  /\ breq.status = 200 => breq.result # <<>>
  /\ breq.pc \in {"history", "scan"} => breq.storeRound = breq.rounds
  /\ breq.timedOut => breq.status = 504
  /\ breq.status = 504 =>
       breq.timedOut /\ breq.result = <<>> /\ bconv = breq.history

\* The request answered from the ledger, before any record of its job, while
\* the settlement of another job is in the history too.
C17_Witness ==
  /\ breq.status = 200
  /\ ~StoreMatch(breq.jobTxid, breq.result)
  /\ LedgerMatch(breq.jobTxid, breq.result)
  /\ \E t \in BridgeIds \ {breq.jobTxid} : agentJob[t].pc = "accepted"

\* C20. JOB tag round-trip (as stated): for every prompt, encoding it as a
\* JOB data output and decoding that output with parseJobFromTx yields the
\* same prompt back.
C20_RoundTrip ==
  codecOut.done => codecOut.found /\ codecOut.text = codecPrompt

\* C20 (amended). JOB tag round-trip for every prompt that is well-formed
\* text, i.e. has no surrogate half without its other half.
C20_RoundTripWellFormed ==
  (codecOut.done /\ WellFormed(codecPrompt)) =>
    codecOut.found /\ codecOut.text = codecPrompt

\* A prompt with a surrogate pair and a character of two bytes, decoded.
C20_Witness ==
  /\ codecOut.done /\ WellFormed(codecPrompt)
  /\ \E i \in 1..Len(codecPrompt) : IsHigh(codecPrompt[i])
  /\ \E i \in 1..Len(codecPrompt) : codecPrompt[i] = 233

\* C21. Back-reference integrity: the RES output the builder makes for a
\* request id stores the id byte-reversed; the bridge's decoder, reversing
\* the field back, obtains the original id and matches the output to that
\* job, and to no job with a different id.
C21_BackReference ==
  /\ \A t \in BridgeIds : \A i \in 1..Len(ledger) :
       ledger[i].txid = ResTxidOf(t) =>
         LET out == ledger[i].outputs[1]
         IN /\ out.kind = "RES"
            /\ out.ref = ReverseBytes(TxidBytes(t))
            /\ ReverseBytes(out.ref) = TxidBytes(t)
            /\ \A u \in BridgeIds :
                 (matchRes(ledger[i].outputs, u) # <<>>) <=> (u = t)
  \* the bridge is answered only once its own job has been settled
  /\ breq.status = 200 => agentJob[breq.jobTxid].pc # "none"

\* The settlements of two jobs whose ids are each other's reversal are in the
\* history, and the bridge has been answered with that of its own job.
C21_Witness ==
  /\ \E t \in BridgeIds :
       /\ t # Partner(t) /\ Partner(t) \in BridgeIds
       /\ agentJob[t].pc # "none" /\ agentJob[Partner(t)].pc # "none"
       /\ OnLedger(ResTxidOf(t)) /\ OnLedger(ResTxidOf(Partner(t)))
       /\ breq.jobTxid = t
  /\ breq.status = 200

\* C22. Decoding never raises: among payments, data outputs with a foreign
\* tag and data outputs whose script cannot be parsed, each decoder passes
\* over those outputs and returns the payload of a valid JOB (resp. matching
\* RES) output wherever it is among them, and "none" when there is none.
C22_DecodeAnywhere ==
  /\ decJob.done =>
       /\ decJob.found <=> HasOutput(decVout, "job")
       /\ decJob.found => decJob.text = SamplePrompt
  /\ decRes.done =>
       /\ decRes.found <=> HasOutput(decVout, "res")
       /\ decRes.found => decRes.text = SampleResult

\* C23 (as stated). Greedy input accumulation: the inputs of a submitted job
\* transaction are the shortest prefix of the listing, in listing order,
\* whose total reaches payment + 1000.
C23_ShortestPrefix ==
  subTx.status = "sent" =>
    LET need == PaymentOf(subSender) + 1000
        enough == SufficientPrefixes(subListing, need)
    IN /\ enough # {}
       /\ \A k \in enough :
            (\A j \in enough : k <= j) =>
              subTx.inputs = SubSeq(subListing, 1, k)

\* C23 (amended). The inputs are the shortest prefix of the listing, in
\* listing order, whose total reaches payment + 1000, and the whole listing
\* when no prefix reaches it; nothing listed after the first sufficient
\* prefix is used and nothing is reordered.
C23_GreedyPrefix ==
  subTx.status = "sent" =>
    LET need == PaymentOf(subSender) + 1000
        enough == SufficientPrefixes(subListing, need)
    IN /\ \A i \in 1..Len(subTx.inputs) : subTx.inputs[i] = subListing[i]
       /\ enough = {} => subTx.inputs = subListing
       /\ \A k \in enough :
            (\A j \in enough : k <= j) =>
              subTx.inputs = SubSeq(subListing, 1, k)

\* A submission from a listing whose first two outputs suffice, in an order
\* that is neither ascending nor descending, with a third left unused.
C23_Witness ==
  /\ subTx.status = "sent" /\ Len(subListing) = 3 /\ Len(subTx.inputs) = 2
  /\ subListing[1].value < subListing[2].value
  /\ subListing[3].value < subListing[1].value

\* The amount request t pays to the agent (processJob, line 255).
PaidTo(t) == SumSats(findOurOutputs(detail[t], t))
\* The step appends exactly one entry to the Job Store.
OneNewEntry == Len(jobs') = Len(jobs) + 1 /\ SubSeq(jobs', 1, Len(jobs)) = jobs
LastJob(js) == js[Len(js)]

\* C24. End-to-end settlement record: when a JOB request paying v to the
\* agent was observed, inference returned the text r and the broadcast of the
\* settlement succeeds with id t, the step writes exactly one new Job Store
\* entry, with satsReceived = v, result = r, resTxid = t (not null) and
\* satsKept = v - FEE.
C24_SettledEntry ==
  [][ \A e \in Execs :
        (Processed(e) /\ Accepted(e.txid)) =>
           /\ OneNewEntry
           /\ LastJob(jobs').jobTxid = e.txid
           /\ LastJob(jobs').satsReceived = PaidTo(e.txid)
           /\ LastJob(jobs').result = e.result
           /\ LastJob(jobs').resTxid = ResTxidOf(e.txid)
           /\ LastJob(jobs').resTxid # Null
           /\ LastJob(jobs').satsKept = PaidTo(e.txid) - FEE ]_vars

\* The same for results within the OP_RETURN ceiling.
C24_SettledEntryWithinCeiling ==
  [][ \A e \in Execs :
        (Processed(e) /\ Accepted(e.txid) /\ ByteLen(e.result) <= MaxResultBytes) =>
           /\ OneNewEntry
           /\ LastJob(jobs').jobTxid = e.txid
           /\ LastJob(jobs').satsReceived = PaidTo(e.txid)
           /\ LastJob(jobs').result = e.result
           /\ LastJob(jobs').resTxid = ResTxidOf(e.txid)
           /\ LastJob(jobs').resTxid # Null
           /\ LastJob(jobs').satsKept = PaidTo(e.txid) - FEE ]_vars

\* C25. Ledger gateway error contract: every read call fails with an error
\* when the network fails or the response status is not 2xx, except that a
\* 404 resolves to "not found" (null); a non-2xx, non-404 response is never
\* returned to the caller as data.
C25_GatewayErrors ==
  (gwCall.fn \in ReadCalls /\ gwOut # Unsettled) =>
     /\ gwCall.netError => gwOut = Rejected
     /\ (NonSuccess(gwCall) /\ gwCall.status # 404) => gwOut = Rejected
     /\ (~gwCall.netError /\ gwCall.status = 404) => gwOut = Resolved(NullValue)
     /\ (NonSuccess(gwCall) /\ gwCall.status # 404) =>
          ~(gwOut.kind = "resolved" /\ gwOut.value # NullValue)

\* What the code does keep of it: a network failure rejects every call, a
\* 404 on a read of the agent or the bridge resolves null, and a broadcast
\* answered with a status of 400 or more rejects.
C25_NetworkAndNotFound ==
  gwOut # Unsettled =>
     /\ gwCall.netError => gwOut = Rejected
     /\ (gwCall.fn = "httpGet" /\ ~gwCall.netError /\ gwCall.status = 404)
          => gwOut = Resolved(NullValue)
     /\ (gwCall.fn = "wocBroadcast" /\ ~gwCall.netError /\ gwCall.status >= 400)
          => gwOut = Rejected

\* C26. The Job Store is append-only: every step of the agent and of the
\* bridge (the viewer and the bridge only read it) leaves the records it
\* holds unchanged and in place, and changes the store only by appending one
\* record at its end.
C26_AppendOnly ==
  [][ jobs' # jobs => OneNewEntry ]_vars

\* The store after a second record was appended behind the first.
C26_Witness ==
  /\ Len(jobs) = 2 /\ jobs[1].jobTxid # jobs[2].jobTxid
  /\ \A t \in BridgeIds : agentJob[t].pc = "saved"

\* The broadcast was accepted and the write of the success record failed.
WriteFailed == stOut # "running" /\ stEnv.accepted /\ ~stEnv.firstWrite

\* C27. A storage failure is not trapped: when writing the Job Store record
\* fails after a successful broadcast, the error leaves processJob and
\* processJob writes no record for the request while handling it.
C27_WriteErrorPropagates ==
  WriteFailed => (stOut = "threw" /\ stAfter = stBefore)

\* When the write in the catch block fails as well, the error does leave
\* processJob and the store is as it was.
C27_BothWritesFail ==
  (WriteFailed /\ ~stEnv.secondWrite) => (stOut = "threw" /\ stAfter = stBefore)

\* C28. A poll tick whose address-history read fails (the call is rejected,
\* or the answer is not a list) contributes nothing: the step ends the tick,
\* leaves the seen-set and the Job Store unchanged and hands no id to
\* processJob (so no inference call and no broadcast is made); the next
\* tick's read therefore meets the seen-set and the store the failed one met
\* and hands on the id the failed tick would have handed on.
C28_FailedReadNoEffect ==
  [][ /\ ReadFailed =>
           /\ pollTick' = IdleTick
           /\ pollSeen' = pollSeen /\ pollJobs' = pollJobs
           /\ pollCalls' = pollCalls
      /\ (ReadAnswered /\ pollLast.kind \notin {"none", "list"}) =>
           /\ pollSeen = pollLast.seen /\ pollJobs = pollLast.jobs
           /\ pollLast'.kind = "list" =>
                LET r == LoopFrom(pollLast'.list, pollLast.seen, pollLast.jobs)
                IN /\ pollSeen' = r.seen
                   /\ r.txid # Null => r.txid \in pollCalls' ]_vars

\* A failed read was followed by a tick that handed on an id the seen-set
\* did not hold when the read failed.
C28_Witness ==
  /\ pollCount = 2 /\ pollTick.pc = "job"
  /\ pollLast.prev = "rejected" /\ pollLast.kind = "list"
  /\ pollTick.txid \notin pollLast.seen
  /\ pollJobs = <<>> /\ pollCalls = {pollTick.txid}

\* C29. The settlement of a job spends exactly the outputs of its request
\* transaction that pay the agent's address: every such output once, in
\* order, under the request's id and the output's index, and no other
\* output; and the record's satsReceived is the sum of those outputs'
\* amounts, the builder's totalIn.
C29_SpendsRequestOutputs ==
  setBuilt # NotBuilt =>
    LET ins == setBuilt.tx.inputs
        ours == PayingAgent(setTx)
    IN /\ Len(ins) = Cardinality(ours)
       /\ \A k \in 1..Len(ins) : ins[k].txid = setTx.txid
       /\ {ins[k].vout : k \in 1..Len(ins)} = {setTx.vout[i].n : i \in ours}
       /\ \A k \in 1..Len(ins) : \A i \in ours :
            setTx.vout[i].n = ins[k].vout =>
               ins[k].satoshis = setTx.vout[i].value
       /\ setBuilt.keep = SumValuesAt(setTx.vout, ours) - FEE
       /\ setRecord # NoRecord =>
            /\ setRecord.satsReceived = SumValuesAt(setTx.vout, ours)
            /\ setRecord.satsReceived = SumSats(ins)

\* A request with a payment to a stranger between two payments to the
\* agent, settled and recorded.
C29_Witness ==
  /\ setRecord # NoRecord /\ Len(setTx.vout) = 3
  /\ PayingAgent(setTx) = {1, 3}
  /\ setRecord.satsReceived = 4000

\* The number of executions that hold id t (handed to processJob by them).
RECURSIVE CopiesOf(_)
CopiesOf(S) ==
  IF S = {} THEN 0
  ELSE LET e == CHOOSE f \in S : TRUE
       IN CopiesIn(e, ticks) + CopiesOf(S \ {e})
HandlingCount(t) == CopiesOf(Handling(t))

\* C30. Even with two poll ticks in progress at the same time, no id is
\* handed to processJob by both: an id is handed on only in a step that finds
\* it outside the seen-set and puts it in (test and insertion are one step),
\* by one execution, and the seen-set loses nothing while the process runs;
\* so for every id at most one processJob invocation starts in one process
\* lifetime.
C30_HandedOnce ==
  [][ /\ \A t \in TxIds :
           /\ HandlingCount(t)' <= 1
           /\ HandlingCount(t)' > HandlingCount(t) =>
                /\ HandlingCount(t) = 0
                /\ t \notin lastSeenTxids /\ t \in lastSeenTxids'
           /\ InFlight(t)' => t \in lastSeenTxids'
      /\ (phase = "up" /\ phase' = "up") => lastSeenTxids \subseteq lastSeenTxids'
    ]_vars

\* Two ticks in progress: one has handed an id to processJob, the other is
\* still waiting for its history read.
C30_Witness ==
  \E e, f \in Execs :
     /\ e.txid # Null /\ e.pc # "history" /\ f.pc = "history"
     /\ BagCardinality(ticks) = 2 /\ e.txid \in lastSeenTxids

\* The worth of the outputs of a job transaction.
RECURSIVE SumSubmitted(_)
SumSubmitted(outs) ==
  IF outs = <<>> THEN 0 ELSE Head(outs).satoshis + SumSubmitted(Tail(outs))

\* C31. A job-submission transaction never creates outputs worth more than
\* its inputs: for every listing, either the transaction handed to the
\* broadcast has payment + change <= totalIn, or none is handed over.
C31_OutputsWithinInputs ==
  subTx.status = "sent" =>
     SumSubmitted(subTx.outputs) <= SumValues(subTx.inputs)

\* With inputs worth at least the payment, the outputs stay within them.
C31_FundedWithinInputs ==
  (subTx.status = "sent" /\ SumValues(subTx.inputs) >= PaymentOf(subSender)) =>
     SumSubmitted(subTx.outputs) <= SumValues(subTx.inputs)

\* The records of the store that mark request t as failed.
FailedEntries(js, t) ==
  {i \in 1..Len(js) : js[i].jobTxid = t /\ js[i].resTxid = Null /\ js[i].error}

\* C32. A record with resTxid null and error set exists only for jobs whose
\* settlement broadcast did not succeed: once the broadcast of a job's
\* settlement has succeeded, processJob writes no record marking the job as
\* failed, whatever fails afterwards.
C32_NoFailedRecordAfterSuccess ==
  (stOut # "running" /\ stEnv.accepted) => FailedEntries(stAfter, StoreJob) = {}

\* The same in the agent's own run, the ledger deciding what was spent.
C32_FailedMeansUnspent ==
  \A t \in TxIds : FailedEntries(jobs, t) # {} => t \notin spentReq

\* What the ledger scan of waitForResponse returns for job t over the whole
\* address history: the payload of the first matching RES output, or <<>>.
RECURSIVE scanLedger(_, _)
scanLedger(txs, t) ==
  IF txs = <<>> THEN <<>>
  ELSE IF matchRes(Head(txs).outputs, t) # <<>>
         THEN matchRes(Head(txs).outputs, t)
         ELSE scanLedger(Tail(txs), t)

\* Job t is settled: its RES output is on the ledger and its record with the
\* settlement id is in the store.
Settled(t) == storeResult(jobs, t) # <<>> /\ scanLedger(ledger, t) # <<>>

\* C33. The two correlation paths of the bridge agree: for every settled
\* job the result found in the Job Store equals the result found by
\* scanning the ledger for the RES output, hashed results included.
C33_PathsAgree ==
  \A t \in BridgeIds : Settled(t) => storeResult(jobs, t) = scanLedger(ledger, t)

\* The same for results within the OP_RETURN ceiling.
C33_PathsAgreeWithinCeiling ==
  \A t \in BridgeIds :
     (Settled(t) /\ ByteLen(agentJob[t].result) <= MaxResultBytes) =>
        storeResult(jobs, t) = scanLedger(ledger, t)

\* C34. The result the bridge returns for a submitted job comes only from a
\* settlement made by the agent: a transaction of any other party listed in
\* the agent address's history, carrying RES <reversed job id> <text>, is
\* never taken as the response to the job.
C34_OnlyAgentSettlement ==
  scanOut.done => scanOut.by = "agent"

\* What the scan does guarantee: the text returned is the payload of a RES
\* output that refers to the job.
C34_RefersToJob ==
  scanOut.done =>
     /\ scanRest # <<>>
     /\ matchRes(Head(scanRest).outputs, ScanJob) = scanOut.text
     /\ scanOut.text # <<>>

\* The entries of the conversation written by request r.
EntriesOf(h, r) == {i \in 1..Len(h) : h[i].timestamp = r}
AllFinished == \A r \in ChatReqs : reqs[r].pc = "done"

\* C35. Concurrent chat requests of one requester do not corrupt the
\* conversation: once all have finished, the persisted conversation holds
\* one final entry for each request that succeeded, none for a request that
\* failed, and no entry with pending set.
C35_ConcurrentChatsKept ==
  AllFinished =>
     /\ PendingIn(conv) = {}
     /\ \A r \in ChatReqs :
          IF reqs[r].status = 200
            THEN Cardinality(EntriesOf(conv, r)) = 1
            ELSE EntriesOf(conv, r) = {}

\* C36. A conversation entry saved by the bridge for an answered job always
\* carries the id of the settlement transaction, however the agent's
\* broadcast and its Job Store write interleave with the bridge's polling.
C36_EntryHasResTxid ==
  \A i \in 1..Len(bconv) : bconv[i].jobTxid # Null => bconv[i].resTxid # Null

\* An entry without the id was answered from the ledger: its result is the
\* payload of a RES output there.
C36_MissingOnlyFromLedger ==
  \A i \in 1..Len(bconv) :
     (bconv[i].jobTxid # Null /\ bconv[i].resTxid = Null) =>
        LedgerMatch(bconv[i].jobTxid, bconv[i].result)

(* ---------------- step order within one processJob pass ---------------- *)
\* Where the pass over id t stands: the await its execution is suspended on
\* (empty when no execution holds t).
StageOf(t) == {e.pc : e \in Handling(t)}

\* The order of processJob's awaits, lines 245-271: each stage and the one
\* that may follow it. A pass may also end (return, or a throw caught by
\* pollForJobs) after the transaction read.
NextStage(pc) ==
  CASE pc = "delay"     -> {"fetchTx"}
    [] pc = "fetchTx"   -> {"llm"}
    [] pc = "llm"       -> {"broadcast"}
    [] pc = "broadcast" -> {}
    [] OTHER            -> {}

\* The pass over t moves one stage on, or not at all.
Advances(t) ==
  \/ StageOf(t)' = StageOf(t)
  \/ StageOf(t) = {} /\ StageOf(t)' = {"delay"}
  \/ \E pc \in StageOf(t) :
        /\ StageOf(t) = {pc}
        /\ StageOf(t)' = NextStage(pc)
        /\ pc = "fetchTx" => ValidJob(t)
  \/ StageOf(t) = {"fetchTx"} /\ StageOf(t)' = {}
  \/ phase' = "starting" /\ StageOf(t)' = {}

\* The pass over t returns from its broadcast await.
Finishes(t) == StageOf(t) = {"broadcast"} /\ StageOf(t)' = {}

\* C37. Within one job the steps come in order: the transaction read, the
\* tag and funds checks, one inference call, one broadcast, then the Job
\* Store write. The Job Store is written only in the step in which the
\* broadcast await of a pass returns, by exactly one record for that id, and
\* a settlement is accepted only in such a step (or found sent after a
\* restart).
C37_StepOrder ==
  [][/\ \A t \in TxIds : Advances(t)
     /\ jobs' # jobs =>
          \E t \in TxIds :
             /\ Finishes(t) /\ OneNewEntry
             /\ LastJob(jobs').jobTxid = t
             /\ \A u \in TxIds \ {t} : ~Finishes(u)
     /\ spentReq' # spentReq =>
          \/ phase' = "starting"
          \/ \E t \in TxIds :
                Finishes(t) /\ spentReq' = spentReq \cup {t} /\ jobs' # jobs
    ]_vars

\* A pass has gone through every stage: the request is settled on the
\* ledger, its one record is the last of the Job Store and no execution
\* holds it any more.
C37_Witness ==
  /\ phase = "up" /\ Len(jobs) = 1
  /\ \E t \in TxIds :
        /\ StageOf(t) = {} /\ t \in spentReq /\ t \notin llmFailed
        /\ LastJob(jobs).jobTxid = t /\ LastJob(jobs).resTxid = ResTxidOf(t)
        /\ ~LastJob(jobs).error

(* ------------------------- blank chat prompts -------------------------- *)
\* A prompt that is empty or holds only whitespace.
Blank(p) == p \in {"", "  "}

\* The handler of request r runs from the parsed body to its first await or
\* to its answer.
Starts(r) == reqs[r].pc = "idle" /\ reqs'[r].pc # "idle"
\* Request r has been answered with 400.
Refused(r) == reqs[r].pc = "done" /\ reqs[r].status = 400

\* C38. A chat request with an empty or whitespace-only prompt is answered
\* with 400 and has no effect. In web.cjs: a handler that goes on to
\* inference holds a prompt that is not blank; the step that refuses a
\* request leaves the conversation and the wallet as they were and the
\* request with no prompt, no result and no transaction; a refused request
\* takes no further step and has no entry in the conversation.
C38_BlankPromptRefused ==
  [][\A r \in ChatReqs :
       /\ Starts(r) =>
            \/ /\ reqs'[r] = [IdleReq EXCEPT !.pc = "done", !.status = 400]
               /\ UNCHANGED <<conv, utxoSet, sentInputs, reselected>>
            \/ /\ reqs'[r].pc = "llm" /\ reqs'[r].status = 0
               /\ ~Blank(reqs'[r].prompt)
       /\ Refused(r) => reqs'[r] = reqs[r] /\ EntriesOf(conv', r) = {}
    ]_vars

\* The same in the bridge: the handler goes on to sendJobTx only with a
\* prompt that is not blank; the step that refuses leaves the ledger, the
\* conversation and the Job Store as they were, and the refused request
\* takes no further step and never changes the conversation.
C38_BridgeBlankPromptRefused ==
  [][/\ (breq.pc = "idle" /\ breq'.pc # "idle") =>
          \/ /\ breq' = [IdleBridgeReq EXCEPT !.pc = "done", !.status = 400]
             /\ UNCHANGED <<ledger, bconv, jobs, agentJob>>
          \/ breq'.pc = "unspent" /\ ~Blank(breq'.prompt)
     /\ (breq.pc = "done" /\ breq.status = 400) =>
          breq' = breq /\ bconv' = bconv
    ]_vars

\* A request has been refused while another, with a prompt, has its pending
\* entry in the conversation and is waiting for inference.
C38_Witness ==
  \E r, q \in ChatReqs :
     /\ Refused(r) /\ EntriesOf(conv, r) = {}
     /\ reqs[q].pc = "llm" /\ PendingIn(conv) # {}
     /\ EntriesOf(conv, q) # {}

====
